---- MODULE Spec2Model ----
(***************************************************************************)
(* Scan execution engine of campsite-tracker                               *)
(* (backend/crates/campground-scan): the scheduler loop of ScanExecutor,   *)
(* its spawned worker tasks, the availability cache, the notifier and the  *)
(* session manager.                                                        *)
(*                                                                         *)
(* Time is counted in abstract units and dates are day numbers.  The       *)
(* configuration is instantiated with small values that keep the order of  *)
(* the defaults: min_api_interval <= poll frequency < one hour = backoff.  *)
(* The scheduler task and the worker tasks interleave at the .await points *)
(* of the source; consecutive awaits of one task that touch only what the  *)
(* task owns are taken as one step.                                        *)
(***************************************************************************)
EXTENDS Integers, Sequences, FiniteSets, TLC

(***************************************************************************)
(* Bounds of the model                                                     *)
(***************************************************************************)
MaxTime == 2
NumWorkers == 2
MaxDate == 5

\* poll_frequency_minutes of the second campground's job row
SlowPollFrequency == 4
\* days of a calendar month
DaysPerMonth == 4
MaxStatusLen == 3
\* last instant of the clock in the runs of the session manager on its own
MaxSessionTime == 5
\* last instant of the clock in the runs that wait for the hourly reset
MaxHourTime == 5

(***************************************************************************)
(* ScanExecutorConfig, SessionConfig and literals of the source, in model  *)
(* units                                                                   *)
(***************************************************************************)
MinApiInterval == 1
MaxCallsPerHour == 2
MaxConsecutiveErrors == 2
ErrorBackoffDuration == 2
DefaultPollFrequency == 1
OneHour == 2
QueryLimit == 50
ValidationInterval == 2
MaxFailures == 3

NoTime == 0 - 1
MinUtc == 0 - 1000

Campgrounds == {"g1", "g2"}
Sites == {"s1", "s2"}
Dates == 0 .. MaxDate
ScanIds == 1 .. 3
WorkerIds == 1 .. NumWorkers

VARIABLES
    now,            \* Utc::now(), in time units
    today,          \* CURRENT_DATE
    jobs,           \* table polling_jobs, one row per campground
    scans,          \* table user_scans
    cache,          \* table campground_availability, keyed (campground, date)
    notifications,  \* table notifications, as a count per (scan, type, status)
    active_polls,   \* ScanExecutor.active_polls (keys of the map)
    last_api_call,  \* ScanExecutor.last_api_call
    api_call_count, \* ScanExecutor.api_call_count
    session,        \* SessionManager.session_state
    sched,          \* the scheduler task: position in start/process_polling_jobs
    workers,        \* the spawned worker tasks
    verification_store, \* VerificationStore: key -> VerificationCode
    env,            \* what the environment may do in this run (fixed)
    hist            \* history of observable effects (requests, deliveries)

vars == <<now, today, jobs, scans, cache, notifications, active_polls,
          last_api_call, api_call_count, session, sched, workers,
          verification_store, env, hist>>

(***************************************************************************)
(* Helpers                                                                 *)
(***************************************************************************)
RECURSIVE SetToSeq(_)
SetToSeq(S) ==
    IF S = {} THEN <<>>
    ELSE LET x == CHOOSE y \in S : \A z \in S : y <= z
         IN <<x>> \o SetToSeq(S \ {x})

CampgroundOrder == <<"g1", "g2">>
CampgroundIndex(g) == CHOOSE i \in 1 .. Len(CampgroundOrder) : CampgroundOrder[i] = g
SiteOrder == <<"s1", "s2">>

(***************************************************************************)
(* Rows and values                                                         *)
(***************************************************************************)
JsonNull == <<"null">>

\* serde_json::to_value(&Vec<SiteAvailability>): an array of objects
SerializeSites(sites) ==
    <<"array", [i \in 1 .. Len(sites) |->
        <<"object", sites[i].site_id, sites[i].site_name, sites[i].available,
          sites[i].date, sites[i].price>>]>>

\* serde_json::from_value::<Vec<SiteAvailability>>
DeserializeSites(json) ==
    [i \in 1 .. Len(json[2]) |->
        [site_id |-> json[2][i][2], site_name |-> json[2][i][3],
         available |-> json[2][i][4], date |-> json[2][i][5],
         price |-> json[2][i][6]]]

NoRow ==
    [check_status |-> "none", available_sites |-> 0, total_sites |-> 0,
     availability_data |-> JsonNull, error_message |-> "NULL"]

NoJob ==
    [campground_id |-> "none", active_scan_count |-> 0, last_polled |-> NoTime,
     next_poll_at |-> 0, poll_frequency_minutes |-> 0, consecutive_errors |-> 0,
     is_being_polled |-> FALSE, priority |-> 0]

FreeWorker ==
    [pc |-> "free", job |-> NoJob, scans |-> <<>>, range |-> <<0, 0>>,
     wake |-> 0, new_sites |-> <<>>, idx |-> 0, result |-> "ok"]

IdleSched == [pc |-> "idle", queue |-> <<>>, cur |-> NoJob]

\* the rows the CRUD path has inserted into user_scans; watched = campgrounds
\* whose scans are active
InitScans(watched) ==
    [id \in ScanIds |->
        [id |-> id,
         user_id |-> IF id = 2 THEN "u2" ELSE "u1",
         campground_id |-> IF id = 3 THEN "g2" ELSE "g1",
         check_in_date |-> CASE id = 1 -> 0 [] id = 2 -> 1 [] OTHER -> 3,
         check_out_date |-> CASE id = 1 -> 2 [] id = 2 -> 3 [] OTHER -> 5,
         status |-> IF (IF id = 3 THEN "g2" ELSE "g1") \in watched
                    THEN "active" ELSE "cancelled",
         notification_sent |-> FALSE,
         expires_at |-> NoTime]]

\* a WHERE clause with check_out_date > CURRENT_DATE
C21_AfterToday(scan, campground_id) ==
    /\ scan.campground_id = campground_id
    /\ scan.status = "active"
    /\ (scan.expires_at = NoTime \/ scan.expires_at > now)
    /\ scan.check_out_date > today

\* a scan the worker loads: WHERE clause of get_active_scans_for_campground
ScanIsLoaded(scan, campground_id) ==
    /\ scan.campground_id = campground_id
    /\ scan.status = "active"
    /\ (scan.expires_at = NoTime \/ scan.expires_at > now)
    /\ scan.check_out_date >= today

\* polling_jobs as the trigger on user_scans maintains it
InitJobs(scan_table) ==
    [g \in Campgrounds |->
        [campground_id |-> g,
         active_scan_count |-> Cardinality({id \in ScanIds :
             scan_table[id].campground_id = g /\ scan_table[id].status = "active"}),
         last_polled |-> NoTime,
         next_poll_at |-> 0,
         poll_frequency_minutes |-> IF g = "g1" THEN DefaultPollFrequency ELSE SlowPollFrequency,
         consecutive_errors |-> 0,
         is_being_polled |-> FALSE,
         priority |-> 1]]

InitSession == [last_validated |-> NoTime, is_valid |-> FALSE, failure_count |-> 0]

\* the snapshot of a campground's last poll: unknown after a failed poll
NoSnapshot == [known |-> FALSE, open |-> {}]

NotDecoded == [known |-> FALSE, status |-> <<>>, result |-> <<FALSE, 0 - 1>>]

NoDispatch == [known |-> FALSE]

NotEnsured == [known |-> FALSE]

NotWritten ==
    [known |-> FALSE, campground_id |-> "none", range |-> <<0, 0>>,
     sites |-> <<>>, healed |-> {}]

\* last_request: instant of the last upstream availability request
\* first_hour:   upstream availability requests sent in the hour from 0, in
\*               the runs that tally them
\* delivered:    per scan, dispatches in which a transport delivered
\* before:       per task, consecutive_errors of the row when the task was spawned
\* dropped:      candidates the current tick gave up at the hourly gate
\* last, same:   per campground, the snapshot of the last poll and whether the
\*               poll before it had fetched the same one
\* decoded:      the last status string decoded on its own, and the result
\* ensured:      the last call of ensure_valid_session made on its own: the
\*               state before and after, the instant, whether it refreshed
\*               and what the homepage answered
\* seen:         per campground, the cells open in the last snapshot that was
\*               fetched and stored
\* pending:      per scan, the cells of its last dispatch when that dispatch
\*               delivered nothing and returned an error
\* unauthorised: upstream answered 401 or 403 and no refresh has succeeded since
\* reopened:     a reset has set a counter at the maximum back to 0
\* dispatch:     the last dispatch made on its own: the user, what the
\*               transports did, and the result
\* written:      the last write of the store on its own: the snapshot, its
\*               window, and the dates whose row was an error row before it
\* the keys and codes of the verification store
Keys == {"k1", "k2"}
Codes == {"c1", "c2"}

\* create_verification_store
EmptyStore == [k \in {} |-> 0]

\* codes:        per key, the life of the code stored last: its expiry, the
\*               calls of verify_code for the key since it was stored, how many
\*               returned Ok(false) and Ok(true)
\* ends:         how stored codes have ended so far
\* verified:     the last call of verify_code: its key and its result
NotIssued == [issued |-> FALSE, expires_at |-> 0, calls |-> 0, failed |-> 0,
              trues |-> 0]
NotVerified == [known |-> FALSE]

InitHist ==
    [last_request |-> NoTime,
     first_hour |-> 0,
     delivered |-> [id \in ScanIds |-> 0],
     before |-> [w \in WorkerIds |-> 0],
     dropped |-> {},
     last |-> [g \in Campgrounds |-> NoSnapshot],
     same |-> [g \in Campgrounds |-> FALSE],
     written |-> NotWritten,
     decoded |-> NotDecoded,
     dispatch |-> NoDispatch,
     ensured |-> NotEnsured,
     unauthorised |-> FALSE,
     reopened |-> FALSE,
     seen |-> [g \in Campgrounds |-> {}],
     pending |-> [id \in ScanIds |-> {}],
     codes |-> [k \in Keys |-> NotIssued],
     ends |-> {},
     verified |-> NotVerified]

FaultKinds == {"upstream", "session", "jobs_db", "scans_db", "cache_read",
               "cache_write", "error_row", "lookup", "email_send", "sms_send",
               "record", "mark_sent"}

\* what a failed availability request returns (429, 401/403, 404, other)
UpstreamErrors == {"RateLimited", "AuthenticationFailed", "NotFound", "ApiError"}

Users == {"u1", "u2"}

\* users row joined with the transports the service was built with
UserProfiles ==
    {[prefs_email |-> pe, prefs_sms |-> ps, email_verified |-> TRUE,
      phone_verified |-> TRUE, phone |-> TRUE, email_service |-> TRUE,
      sms_service |-> TRUE] : pe \in BOOLEAN, ps \in BOOLEAN}

Profile(pe, ps) == {p \in UserProfiles : p.prefs_email = pe /\ p.prefs_sms = ps}

\* the rows of polling_jobs the process finds when it starts: the rows the
\* process before it left in flight, and the priority and next_poll_at of each
FreshRows ==
    [inflight |-> {},
     priority |-> [g \in Campgrounds |-> 1],
     due |-> [g \in Campgrounds |-> 0]]

InitWithScans(scan_table, environment) ==
    /\ now = 0
    /\ today = 1
    /\ jobs = [g \in Campgrounds |->
                 [InitJobs(scan_table)[g] EXCEPT
                     !.is_being_polled = (g \in environment.rows.inflight),
                     !.priority = environment.rows.priority[g],
                     !.next_poll_at = environment.rows.due[g]]]
    /\ scans = scan_table
    /\ environment.faults \subseteq FaultKinds
    /\ environment.errors \subseteq UpstreamErrors
    /\ env = environment
    /\ cache = [g \in Campgrounds |-> [d \in Dates |-> NoRow]]
    /\ notifications = [k \in ScanIds \X {"email", "sms"} \X {"sent", "failed"} |-> 0]
    /\ active_polls = {}
    /\ last_api_call = MinUtc
    /\ api_call_count = 0
    /\ session = InitSession
    /\ sched = IdleSched
    /\ workers = [w \in WorkerIds |-> FreeWorker]
    /\ hist = InitHist
    /\ verification_store = EmptyStore

InitWith(watched, environment) == InitWithScans(InitScans(watched), environment)

\* what upstream may answer: the cells that can be open, per campground
UpstreamCells(campground_id) ==
    IF campground_id = "g1" THEN {<<"s1", 1>>, <<"s2", 2>>} ELSE {<<"s1", 3>>, <<"s1", 4>>}

\* one campground watched by two scans; sites open and close, the store, the
\* upstream and the notifier may fail
Init ==
    InitWith({"g1"},
             [open |-> [g \in Campgrounds |-> UpstreamCells(g)],
              errors |-> {"RateLimited"},
              faults |-> {"upstream", "email_send", "sms_send"},
              profiles |-> [u \in Users |-> IF u = "u2" THEN Profile(TRUE, TRUE)
                                                       ELSE Profile(TRUE, FALSE)],
              rows |-> FreshRows,
              tally |-> FALSE,
              slots |-> 1])

\* the same campground with a failing session endpoint, upstream and store
InitFaults ==
    InitWith({"g1"},
             [open |-> [g \in Campgrounds |-> UpstreamCells(g)],
              errors |-> {"RateLimited"},
              faults |-> {"upstream", "session", "cache_read", "cache_write"},
              profiles |-> [u \in Users |-> Profile(TRUE, FALSE)],
              rows |-> FreshRows,
              tally |-> FALSE,
              slots |-> 1])

\* every campground watched and polled concurrently; upstream answers or
\* fails but never opens a site
InitSched ==
    InitWith(Campgrounds,
             [open |-> [g \in Campgrounds |-> {}],
              errors |-> {"RateLimited"},
              faults |-> {"upstream"},
              profiles |-> [u \in Users |-> Profile(TRUE, TRUE)],
              rows |-> FreshRows,
              tally |-> FALSE,
              slots |-> NumWorkers])

\* one campground whose requests may fail, the requests tallied
InitRate ==
    InitWith({"g1"},
             [open |-> [g \in Campgrounds |-> {}],
              errors |-> {"RateLimited"},
              faults |-> {"upstream"},
              profiles |-> [u \in Users |-> Profile(TRUE, TRUE)],
              rows |-> FreshRows,
              tally |-> TRUE,
              slots |-> NumWorkers])

May(fault) == fault \in env.faults

(***************************************************************************)
(* Scheduler: ScanExecutor::start and process_polling_jobs                 *)
(***************************************************************************)
\* a WHERE clause that looks at the scans and the in-flight flag only
C16_AnyIdleJob(job) == job.active_scan_count > 0 /\ ~job.is_being_polled

\* a WHERE clause without NOT is_being_polled
C24_IgnoresFlag(job) ==
    /\ job.active_scan_count > 0
    /\ job.next_poll_at <= now
    /\ job.consecutive_errors < MaxConsecutiveErrors

\* WHERE clause of get_jobs_needing_poll
NeedsPoll(job) ==
    /\ job.active_scan_count > 0
    /\ job.next_poll_at <= now
    /\ ~job.is_being_polled
    /\ job.consecutive_errors < MaxConsecutiveErrors

\* ORDER BY priority DESC, next_poll_at DESC
C20_LatestFirst(a, b) ==
    \/ a.priority > b.priority
    \/ (a.priority = b.priority /\ a.next_poll_at > b.next_poll_at)

\* ORDER BY priority DESC, next_poll_at ASC
JobBefore(a, b) ==
    \/ a.priority > b.priority
    \/ (a.priority = b.priority /\ a.next_poll_at < b.next_poll_at)

RECURSIVE OrderJobs(_)
OrderJobs(S) ==
    IF S = {} THEN <<>>
    ELSE LET first == CHOOSE a \in S :
                 \A b \in S \ {a} :
                     \/ JobBefore(a, b)
                     \/ (~JobBefore(b, a) /\ CampgroundIndex(a.campground_id) < CampgroundIndex(b.campground_id))
         IN <<first>> \o OrderJobs(S \ {first})

Take(s, n) == IF Len(s) <= n THEN s ELSE SubSeq(s, 1, n)

GetJobsNeedingPoll ==
    Take(OrderJobs({jobs[g] : g \in {c \in Campgrounds : NeedsPoll(jobs[c])}}), QueryLimit)

\* sorted_jobs.sort_by(|a, b| b.priority.cmp(&a.priority)): a stable insertion
RECURSIVE InsertByPriority(_, _)
InsertByPriority(sorted, job) ==
    IF sorted = <<>> THEN <<job>>
    ELSE IF Head(sorted).priority >= job.priority
         THEN <<Head(sorted)>> \o InsertByPriority(Tail(sorted), job)
         ELSE <<job>> \o sorted

RECURSIVE SortByPriority(_)
SortByPriority(s) ==
    IF s = <<>> THEN <<>>
    ELSE InsertByPriority(SortByPriority(SubSeq(s, 1, Len(s) - 1)), s[Len(s)])

\* a gate that never closes
C10_GateOpen == TRUE

CanMakeApiCall == api_call_count < MaxCallsPerHour

\* a check that never finds the campground in flight
C1_NeverPolling(campground_id) == FALSE

AlreadyPolling(campground_id) == campground_id \in active_polls

\* mark_job_in_progress
MarkJobInProgress(row, in_progress) == [row EXCEPT !.is_being_polled = in_progress]

AfterLoop(queue) == IF queue = <<>> THEN "reset" ELSE "loop"

\* poll_interval.tick() fires and process_polling_jobs queries the due jobs
Tick ==
    /\ sched.pc = "idle"
    /\ \/ LET sorted_jobs == SortByPriority(GetJobsNeedingPoll)
          IN sched' = [pc |-> AfterLoop(sorted_jobs), queue |-> sorted_jobs, cur |-> NoJob]
       \/ /\ May("jobs_db")                                        \* the query fails
          /\ sched' = [pc |-> "reset", queue |-> <<>>, cur |-> NoJob]
    /\ UNCHANGED <<now, today, jobs, scans, cache, notifications, active_polls,
                   last_api_call, api_call_count, session, workers, env, verification_store, hist>>

\* one iteration of the for loop up to the insert into active_polls
Admit ==
    /\ sched.pc = "loop"
    /\ LET job == Head(sched.queue)
       IN IF AlreadyPolling(job.campground_id)
          THEN /\ sched' = [sched EXCEPT !.queue = Tail(@), !.pc = AfterLoop(Tail(sched.queue))]
               /\ UNCHANGED <<active_polls, hist>>
          ELSE IF ~CanMakeApiCall
          THEN /\ sched' = [pc |-> "reset", queue |-> <<>>, cur |-> NoJob]
               /\ hist' = [hist EXCEPT !.dropped =
                              {sched.queue[i].campground_id : i \in 1 .. Len(sched.queue)}]
               /\ UNCHANGED active_polls
          ELSE /\ active_polls' = active_polls \cup {job.campground_id}
               /\ sched' = [sched EXCEPT !.pc = "mark", !.cur = job, !.queue = Tail(@)]
               /\ UNCHANGED hist
    /\ UNCHANGED <<now, today, jobs, scans, cache, notifications,
                   last_api_call, api_call_count, session, workers, env, verification_store>>

\* tasks the runtime can take on
FreeSlots == {w \in 1 .. env.slots : workers[w].pc = "free"}

\* mark_job_in_progress(id, true), tokio::spawn of the worker, sleep(100 ms)
MarkAndSpawn ==
    /\ sched.pc = "mark"
    /\ \/ /\ FreeSlots # {}
          /\ LET w == CHOOSE x \in FreeSlots : \A y \in FreeSlots : x <= y
             IN /\ workers' = [workers EXCEPT ![w] =
                       [FreeWorker EXCEPT !.pc = "begin", !.job = sched.cur]]
                /\ hist' = [hist EXCEPT !.before[w] =
                               jobs[sched.cur.campground_id].consecutive_errors]
          /\ jobs' = [jobs EXCEPT ![sched.cur.campground_id] = MarkJobInProgress(@, TRUE)]
          /\ sched' = [sched EXCEPT !.pc = AfterLoop(sched.queue), !.cur = NoJob]
       \/ /\ May("jobs_db")                                        \* the UPDATE fails
          /\ sched' = [pc |-> "reset", queue |-> <<>>, cur |-> NoJob]
          /\ UNCHANGED <<jobs, workers, hist>>
    /\ UNCHANGED <<now, today, scans, cache, notifications, active_polls,
                   last_api_call, api_call_count, session, env, verification_store>>

\* reset_api_count_if_needed, then the loop awaits the next tick
\* a reset at the end of every tick
C34_ResetEveryTick ==
    /\ sched.pc = "reset"
    /\ api_call_count' = 0
    /\ sched' = IdleSched
    /\ hist' = [hist EXCEPT !.dropped = {}]
    /\ UNCHANGED <<now, today, jobs, scans, cache, notifications, active_polls,
                   last_api_call, session, workers, env, verification_store>>

ResetApiCountIfNeeded ==
    /\ sched.pc = "reset"
    /\ api_call_count' = IF last_api_call < now - OneHour THEN 0 ELSE api_call_count
    /\ sched' = IdleSched
    /\ hist' = [hist EXCEPT !.dropped = {},
                            !.reopened = @ \/ (/\ last_api_call < now - OneHour
                                               /\ api_call_count >= MaxCallsPerHour)]
    /\ UNCHANGED <<now, today, jobs, scans, cache, notifications, active_polls,
                   last_api_call, session, workers, env, verification_store>>

(***************************************************************************)
(* Upstream client: RecGovClient                                           *)
(***************************************************************************)
NoPrice == 0 - 1

Digits == <<"0", "1", "2", "3", "4", "5", "6", "7", "8", "9">>
IsDigit(c) == \E i \in 1 .. 10 : Digits[i] = c
DigitValue(c) == (CHOOSE i \in 1 .. 10 : Digits[i] = c) - 1

RECURSIVE DigitsValue(_)
DigitsValue(cs) ==
    IF cs = <<>> THEN 0 ELSE 10 * DigitsValue(SubSeq(cs, 1, Len(cs) - 1)) + DigitValue(cs[Len(cs)])

AllDigits(cs) == \A i \in 1 .. Len(cs) : IsDigit(cs[i])

\* s[1..].parse::<f64>().ok() on decimal notation, the price in cents
ParsePrice(cs) ==
    LET dots == {i \in 1 .. Len(cs) : cs[i] = "."}
    IN IF cs = <<>> THEN NoPrice
       ELSE IF dots = {}
       THEN IF AllDigits(cs) THEN 100 * DigitsValue(cs) ELSE NoPrice
       ELSE IF Cardinality(dots) > 1 THEN NoPrice
       ELSE LET k == CHOOSE i \in dots : TRUE
                whole == SubSeq(cs, 1, k - 1)
                frac == SubSeq(cs, k + 1, Len(cs))
            IN IF ~AllDigits(whole) \/ ~AllDigits(frac) \/ Len(cs) = 1 \/ Len(frac) > 2
               THEN NoPrice
               ELSE 100 * DigitsValue(whole)
                    + (IF Len(frac) = 1 THEN 10 * DigitsValue(frac) ELSE DigitsValue(frac))

StAvailable == <<"A", "v", "a", "i", "l", "a", "b", "l", "e">>
StReserved == <<"R", "e", "s", "e", "r", "v", "e", "d">>
StNotAvailable == <<"N", "o", "t", " ", "A", "v", "a", "i", "l", "a", "b", "l", "e">>
StNotReservable == <<"N", "o", "t", " ", "R", "e", "s", "e", "r", "v", "a", "b", "l", "e">>
StWalkUp == <<"W", "a", "l", "k", "-", "u", "p">>

\* a decoder that only knows the price strings
C22_PricesOnly(status) ==
    IF status # <<>> /\ status[1] = "$"
    THEN <<TRUE, ParsePrice(Tail(status))>>
    ELSE <<FALSE, NoPrice>>

\* parse_availability_status: <<available, price>>
ParseAvailabilityStatus(status) ==
    CASE status = StAvailable -> <<TRUE, NoPrice>>
      [] status = StReserved -> <<FALSE, NoPrice>>
      [] status = StNotAvailable -> <<FALSE, NoPrice>>
      [] status = StNotReservable -> <<FALSE, NoPrice>>
      [] status = StWalkUp -> <<FALSE, NoPrice>>
      [] status = <<"A">> -> <<TRUE, NoPrice>>
      [] status = <<"R">> -> <<FALSE, NoPrice>>
      [] status = <<"X">> -> <<FALSE, NoPrice>>
      [] status = <<"W">> -> <<FALSE, NoPrice>>
      [] status = <<"N">> -> <<FALSE, NoPrice>>
      [] OTHER -> IF status # <<>> /\ status[1] = "$"
                  THEN <<TRUE, ParsePrice(Tail(status))>>
                  ELSE <<FALSE, NoPrice>>

\* first day of the month of a date: NaiveDate::from_ymd_opt(year, month, 1)
MonthStart(date) == (date \div DaysPerMonth) * DaysPerMonth

\* the dates of one monthly response that parse_availability_data keeps
DatesKept(start_date, end_date) ==
    {d \in MonthStart(start_date) .. (MonthStart(start_date) + DaysPerMonth - 1) :
        d >= start_date /\ d <= end_date}

\* parse_availability_data for one campsite; upstream maps a date to a status
ParseAvailabilityData(site_id, availabilities, start_date, end_date) ==
    LET ds == SetToSeq(DatesKept(start_date, end_date) \cap DOMAIN availabilities)
    IN [i \in 1 .. Len(ds) |->
           [site_id |-> site_id, site_name |-> site_id,
            available |-> ParseAvailabilityStatus(availabilities[ds[i]])[1],
            date |-> ds[i],
            price |-> ParseAvailabilityStatus(availabilities[ds[i]])[2]]]

RECURSIVE ConcatSites(_, _, _, _)
ConcatSites(site_ids, response, start_date, end_date) ==
    IF site_ids = <<>> THEN <<>>
    ELSE ParseAvailabilityData(Head(site_ids), response[Head(site_ids)], start_date, end_date)
         \o ConcatSites(Tail(site_ids), response, start_date, end_date)

\* get_internal_campground_availability on a 2xx response: available_sites
InternalCampgroundAvailability(response, start_date, end_date) ==
    ConcatSites(SiteOrder, response, start_date, end_date)

\* the monthly response of upstream for the month anchored at month_start
UpstreamResponse(open, month_start) ==
    [s \in Sites |->
        [d \in month_start .. (month_start + DaysPerMonth - 1) |->
            IF <<s, d>> \in open THEN StAvailable ELSE StReserved]]


(***************************************************************************)
(* Availability store and diff                                             *)
(***************************************************************************)
\* the range of the first scan of the list
C29_FirstScanRange(loaded) == <<loaded[1].check_in_date, loaded[1].check_out_date>>

\* calculate_date_range over a non-empty list of scans
CalculateDateRange(loaded) ==
    LET ins == {loaded[i].check_in_date : i \in 1 .. Len(loaded)}
        outs == {loaded[i].check_out_date : i \in 1 .. Len(loaded)}
    IN <<CHOOSE d \in ins : \A e \in ins : d <= e,
         CHOOSE d \in outs : \A e \in outs : d >= e>>

\* get_cached_availability: date -> sites, success rows of the range only
GetCachedAvailability(campground_id, start_date, end_date) ==
    LET rows == {d \in Dates :
                    /\ d >= start_date
                    /\ d <= end_date
                    /\ cache[campground_id][d].check_status = "success"
                    /\ cache[campground_id][d].availability_data # JsonNull}
    IN [d \in rows |-> DeserializeSites(cache[campground_id][d].availability_data)]

SitesOnDate(sites, date) ==
    LET OnDate(s) == s.date = date
    IN SelectSeq(sites, OnDate)

AvailableCount(sites) ==
    LET IsAvailable(s) == s.available
    IN Len(SelectSeq(sites, IsAvailable))

SnapshotDates(sites) == {sites[i].date : i \in 1 .. Len(sites)}

\* the row one iteration of update_availability_cache upserts
SuccessRow(sites, date) ==
    [check_status |-> "success",
     available_sites |-> AvailableCount(SitesOnDate(sites, date)),
     total_sites |-> Len(SitesOnDate(sites, date)),
     availability_data |-> SerializeSites(SitesOnDate(sites, date)),
     error_message |-> "NULL"]

\* update_availability_cache having upserted the dates in `done`
UpdateAvailabilityCache(rows, sites, done) ==
    [d \in Dates |-> IF d \in done THEN SuccessRow(sites, d) ELSE rows[d]]

\* an upsert that leaves the row as it was
C8_KeepRow(row, error_message) == row

\* an upsert that stores the message and leaves check_status as it was
C13_MessageOnly(row, error_message) == [row EXCEPT !.error_message = error_message]

\* the upsert at the end of update_job_error
ErrorRow(row, error_message) ==
    [row EXCEPT !.check_status = "error",
                !.error_message = error_message]

\* a diff that ignores the previous snapshot
C5_AllAvailableAreNew(previous, current) ==
    LET IsAvailable(site) == site.available
    IN SelectSeq(current, IsAvailable)

\* a diff for which any earlier entry of the site, available or not, counts
C23_AnyEntryCounts(previous, current) ==
    LET IsNew(site) ==
            /\ site.available
            /\ IF site.date \in DOMAIN previous
               THEN ~\E i \in 1 .. Len(previous[site.date]) :
                        previous[site.date][i].site_id = site.site_id
               ELSE TRUE
    IN SelectSeq(current, IsNew)

\* find_new_availability
FindNewAvailability(previous, current) ==
    LET IsNew(site) ==
            /\ site.available
            /\ IF site.date \in DOMAIN previous
               THEN ~\E i \in 1 .. Len(previous[site.date]) :
                        /\ previous[site.date][i].site_id = site.site_id
                        /\ previous[site.date][i].available
               ELSE TRUE
    IN SelectSeq(current, IsNew)

(***************************************************************************)
(* Notifier: NotificationServiceImpl and the per-scan loop                 *)
(***************************************************************************)
EmailEligible(p) == p.prefs_email /\ p.email_verified /\ p.email_service

\* a condition that does not look at the phone number
C30_NoPhoneCheck(p) == p.prefs_sms /\ p.phone_verified /\ p.sms_service

SmsEligible(p) == p.prefs_sms /\ p.phone_verified /\ p.phone /\ p.sms_service

\* what the environment does to one dispatch: lookups, sends and inserts
DispatchOutcomes ==
    [lookup : BOOLEAN, email_send : BOOLEAN, email_rec : BOOLEAN,
     sms_send : BOOLEAN, sms_rec : BOOLEAN]

\* the outcomes the environment can produce
Allowed(o) ==
    /\ o.lookup \/ May("lookup")
    /\ o.email_send \/ May("email_send")
    /\ o.sms_send \/ May("sms_send")
    /\ (o.email_rec /\ o.sms_rec) \/ May("record")

\* a channel whose failed send is recorded and does not end the dispatch
C31_GoesOnAfterFailure(type, eligible, send_ok, rec_ok) ==
    IF ~eligible
    THEN [tried |-> <<>>, recs |-> <<>>, ext |-> <<>>, delivered |-> 0, goes_on |-> TRUE]
    ELSE [tried |-> <<type>>,
          recs |-> <<<<type, IF send_ok THEN "sent" ELSE "failed">>>>,
          ext |-> <<send_ok>>,
          delivered |-> IF send_ok THEN 1 ELSE 0,
          goes_on |-> TRUE]

\* one channel of send_availability_notification: the sends tried, the
\* records written, whether each record has an external id, the sends
\* delivered, and whether the function goes on
Channel(type, eligible, send_ok, rec_ok) ==
    IF ~eligible
    THEN [tried |-> <<>>, recs |-> <<>>, ext |-> <<>>, delivered |-> 0, goes_on |-> TRUE]
    ELSE IF send_ok
    THEN [tried |-> <<type>>,
          recs |-> IF rec_ok THEN <<<<type, "sent">>>> ELSE <<>>,
          ext |-> IF rec_ok THEN <<TRUE>> ELSE <<>>,
          delivered |-> 1, goes_on |-> rec_ok]
    ELSE [tried |-> <<type>>,
          recs |-> IF rec_ok THEN <<<<type, "failed">>>> ELSE <<>>,
          ext |-> IF rec_ok THEN <<FALSE>> ELSE <<>>,
          delivered |-> 0, goes_on |-> FALSE]

\* send_availability_notification: records, deliveries and Ok/Err
SendAvailabilityNotification(p, o) ==
    IF ~o.lookup
    THEN [tried |-> <<>>, recs |-> <<>>, ext |-> <<>>, delivered |-> 0, ok |-> FALSE]
    ELSE LET em == Channel("email", EmailEligible(p), o.email_send, o.email_rec)
             sm == Channel("sms", SmsEligible(p), o.sms_send, o.sms_rec)
         IN IF ~em.goes_on
            THEN [tried |-> em.tried, recs |-> em.recs, ext |-> em.ext,
                  delivered |-> em.delivered, ok |-> FALSE]
            ELSE [tried |-> em.tried \o sm.tried,
                  recs |-> em.recs \o sm.recs,
                  ext |-> em.ext \o sm.ext,
                  delivered |-> em.delivered + sm.delivered,
                  ok |-> sm.goes_on]

\* a filter that takes the check-out date into the window
C14_ThroughCheckOut(scan, new_sites) ==
    LET InWindow(site) == site.date >= scan.check_in_date /\ site.date <= scan.check_out_date
    IN SelectSeq(new_sites, InWindow)

\* relevant_sites of send_notifications_for_new_availability
RelevantSites(scan, new_sites) ==
    LET InWindow(site) == site.date >= scan.check_in_date /\ site.date < scan.check_out_date
    IN SelectSeq(new_sites, InWindow)

RECURSIVE RecordNotifications(_, _, _)
RecordNotifications(table, scan_id, recs) ==
    IF recs = <<>> THEN table
    ELSE RecordNotifications(
             [table EXCEPT ![<<scan_id, Head(recs)[1], Head(recs)[2]>>] = @ + 1],
             scan_id, Tail(recs))

\* an UPDATE that clears the flag of every other scan
C4_MarkOnlyThisScan(table, scan_id) ==
    [id \in DOMAIN table |-> [table[id] EXCEPT !.notification_sent = (id = scan_id)]]

\* mark_notification_sent
MarkNotificationSent(table, scan_id) ==
    [table EXCEPT ![scan_id].notification_sent = TRUE]

(***************************************************************************)
(* Session manager                                                         *)
(***************************************************************************)
\* needs_validation of ensure_valid_session
\* a check that looks at the age of the validation only
C32_AgeOnly(state) ==
    state.last_validated = NoTime \/ now - state.last_validated > ValidationInterval

NeedsValidation(state) ==
    IF state.last_validated = NoTime THEN TRUE
    ELSE \/ now - state.last_validated > ValidationInterval
         \/ ~state.is_valid
         \/ state.failure_count >= MaxFailures

\* create_new_session by outcome of the GET: 2xx, non-2xx, or no response
CreateNewSession(state, outcome) ==
    CASE outcome = "success" ->
            [last_validated |-> now, is_valid |-> TRUE, failure_count |-> 0]
      [] outcome = "status" ->
            [state EXCEPT !.failure_count = @ + 1, !.is_valid = FALSE]
      [] OTHER -> state

SessionOutcomes == {"success", "status", "network"}

(***************************************************************************)
(* Job bookkeeping                                                         *)
(***************************************************************************)
\* an UPDATE that leaves consecutive_errors alone
C6_KeepErrors(row, job) ==
    [row EXCEPT !.last_polled = now,
                !.next_poll_at = now + job.poll_frequency_minutes,
                !.is_being_polled = FALSE]

\* update_job_success: the UPDATE of polling_jobs
UpdateJobSuccess(row, job) ==
    [row EXCEPT !.last_polled = now,
                !.next_poll_at = now + job.poll_frequency_minutes,
                !.consecutive_errors = 0,
                !.is_being_polled = FALSE]

\* update_job_error: the UPDATE of polling_jobs
UpdateJobError(row, job) ==
    LET new_error_count == job.consecutive_errors + 1
    IN [row EXCEPT !.consecutive_errors = new_error_count,
                   !.next_poll_at =
                       IF new_error_count >= MaxConsecutiveErrors
                       THEN now + ErrorBackoffDuration
                       ELSE now + job.poll_frequency_minutes,
                   !.is_being_polled = FALSE]

(***************************************************************************)
(* Rate governor                                                           *)
(***************************************************************************)
\* enforce_rate_limit: the instant the caller goes on
WakeTime ==
    IF now - last_api_call < MinApiInterval THEN last_api_call + MinApiInterval ELSE now

(***************************************************************************)
(* Worker: the task spawned by process_polling_jobs                        *)
(***************************************************************************)
Campground(w) == workers[w].job.campground_id

LoadedScans(campground_id) ==
    LET ids == SetToSeq({id \in ScanIds : ScanIsLoaded(scans[id], campground_id)})
    IN [i \in 1 .. Len(ids) |-> scans[ids[i]]]

Fail(w, kind) == [workers[w] EXCEPT !.pc = "remove", !.result = kind]

\* the request of fetch_campground_availability goes out
Requested(w) ==
    [hist EXCEPT !.last_request = now,
                 !.first_hour = IF env.tally /\ now < OneHour THEN @ + 1 ELSE @]

\* the poll of the campground fails
Failed(g) == [hist EXCEPT !.last[g] = NoSnapshot, !.same[g] = FALSE]

\* the poll of the campground fetched and stored the snapshot
Fetched(g, open) ==
    [hist EXCEPT !.last[g] = [known |-> TRUE, open |-> open],
                 !.seen[g] = open,
                 !.same[g] = (hist.last[g] = [known |-> TRUE, open |-> open])]

\* the request ended in the error kind
Answered(h, kind) ==
    [h EXCEPT !.unauthorised = @ \/ kind = "AuthenticationFailed"]

\* ensure_valid_session returned Ok, with or without a refresh
SessionEnsured(h, refreshed) ==
    [h EXCEPT !.unauthorised = @ /\ ~refreshed]

\* a poll that sends the request without looking at the scans it loaded
C28_NoEarlyReturn(w) ==
    /\ workers[w].pc = "begin"
    /\ workers' = [workers EXCEPT ![w].pc = "await", ![w].range = <<today, today>>]
    /\ hist' = Requested(w)
    /\ UNCHANGED <<now, today, jobs, scans, cache, notifications, active_polls,
                   last_api_call, api_call_count, session, sched, env, verification_store>>

\* poll_campground up to the request: the scans, ensure_valid_session and
\* enforce_rate_limit; without a sleep the request goes out at once
Begin(w) ==
    /\ workers[w].pc = "begin"
    /\ \/ /\ May("scans_db")                                      \* the SELECT fails
          /\ workers' = [workers EXCEPT ![w] = Fail(w, "Database")]
          /\ hist' = Failed(Campground(w))
          /\ UNCHANGED session
       \/ /\ LoadedScans(Campground(w)) = <<>>
          /\ workers' = [workers EXCEPT ![w].pc = "remove"]
          /\ UNCHANGED <<session, hist>>
       \/ /\ LoadedScans(Campground(w)) # <<>>
          /\ LET loaded == LoadedScans(Campground(w))
                 started == [workers[w] EXCEPT
                                !.scans = loaded,
                                !.range = CalculateDateRange(loaded),
                                !.wake = IF WakeTime <= now THEN 0 ELSE WakeTime,
                                !.pc = IF WakeTime <= now THEN "await" ELSE "sleep"]
             IN \E outcome \in SessionOutcomes :
                   /\ outcome = "success" \/ (NeedsValidation(session) /\ May("session"))
                   /\ session' = IF NeedsValidation(session)
                                 THEN CreateNewSession(session, outcome)
                                 ELSE session
                   /\ workers' = [workers EXCEPT ![w] =
                          IF outcome = "success" THEN started ELSE Fail(w, "ApiError")]
                   /\ hist' = IF outcome # "success" THEN Failed(Campground(w))
                              ELSE SessionEnsured(IF WakeTime <= now THEN Requested(w)
                                                                     ELSE hist,
                                                  NeedsValidation(session))
    /\ UNCHANGED <<now, today, jobs, scans, cache, notifications, active_polls,
                   last_api_call, api_call_count, sched, env, verification_store>>

\* the sleep of enforce_rate_limit ends and the request goes out
WakeAndRequest(w) ==
    /\ workers[w].pc = "sleep"
    /\ now >= workers[w].wake
    /\ workers' = [workers EXCEPT ![w].pc = "await", ![w].wake = 0]
    /\ hist' = Requested(w)
    /\ UNCHANGED <<now, today, jobs, scans, cache, notifications, active_polls,
                   last_api_call, api_call_count, session, sched, env, verification_store>>

\* after the diff: on to the notifier when there are new sites
Diffed(w, new_sites) ==
    [workers[w] EXCEPT !.new_sites = new_sites,
                       !.idx = IF new_sites = <<>> THEN 0 ELSE 1,
                       !.pc = IF new_sites = <<>> THEN "remove" ELSE "notify"]

\* the response of get_internal_campground_availability and record_api_call,
\* then get_cached_availability, update_availability_cache and
\* find_new_availability of poll_campground
Response(w) ==
    /\ workers[w].pc = "await"
    /\ LET g == Campground(w)
           start_date == workers[w].range[1]
           end_date == workers[w].range[2]
           previous == GetCachedAvailability(g, start_date, end_date)
       IN \/ /\ May("upstream")
             /\ \E kind \in env.errors :
                   /\ workers' = [workers EXCEPT ![w] = Fail(w, kind)]
                   /\ hist' = Answered(Failed(g), kind)
             /\ UNCHANGED <<last_api_call, api_call_count, cache>>
          \/ \E open \in SUBSET env.open[g] :
                LET snap == InternalCampgroundAvailability(
                                UpstreamResponse(open, MonthStart(start_date)),
                                start_date, end_date)
                IN /\ last_api_call' = now
                   /\ api_call_count' = api_call_count + 1
                   /\ \/ /\ May("cache_read")                     \* the read fails
                         /\ workers' = [workers EXCEPT ![w] = Fail(w, "Database")]
                         /\ hist' = Failed(g)
                         /\ UNCHANGED cache
                      \/ \E done \in SUBSET SnapshotDates(snap) :  \* an upsert fails
                            /\ May("cache_write")
                            /\ done # SnapshotDates(snap)
                            /\ cache' = [cache EXCEPT ![g] =
                                   UpdateAvailabilityCache(@, snap, done)]
                            /\ workers' = [workers EXCEPT ![w] = Fail(w, "Database")]
                            /\ hist' = Failed(g)
                      \/ /\ cache' = [cache EXCEPT ![g] =
                                UpdateAvailabilityCache(@, snap, SnapshotDates(snap))]
                         /\ workers' = [workers EXCEPT ![w] =
                                Diffed(w, FindNewAvailability(previous, snap))]
                         /\ hist' = Fetched(g, open)
    /\ UNCHANGED <<now, today, jobs, scans, notifications, active_polls,
                   session, sched, env, verification_store>>

\* a loop that returns after the scan it is on
C18_StopAtScan(w) == [workers[w] EXCEPT !.pc = "remove"]

\* the end of one iteration of the loop over the scans
AfterScan(w) ==
    IF workers[w].idx >= Len(workers[w].scans)
    THEN [workers[w] EXCEPT !.pc = "remove"]
    ELSE [workers[w] EXCEPT !.idx = @ + 1]

\* the (site, date) pairs of a list of sites
Cells(sites) == {<<sites[i].site_id, sites[i].date>> : i \in 1 .. Len(sites)}

\* one iteration of the loop of send_notifications_for_new_availability
Notify(w) ==
    /\ workers[w].pc = "notify"
    /\ LET scan == workers[w].scans[workers[w].idx]
       IN IF RelevantSites(scan, workers[w].new_sites) = <<>> \/ scan.notification_sent
          THEN UNCHANGED <<scans, notifications, hist>>
          ELSE \E p \in env.profiles[scan.user_id], o \in DispatchOutcomes,
                  mark_ok \in BOOLEAN :
                  LET sent == SendAvailabilityNotification(p, o)
                  IN /\ Allowed(o)
                     /\ mark_ok \/ May("mark_sent")
                     /\ notifications' = RecordNotifications(notifications, scan.id, sent.recs)
                     /\ hist' = [hist EXCEPT
                                    !.delivered[scan.id] =
                                        @ + (IF sent.delivered > 0 THEN 1 ELSE 0),
                                    !.pending[scan.id] =
                                        IF sent.delivered = 0 /\ ~sent.ok
                                        THEN Cells(RelevantSites(scan, workers[w].new_sites))
                                        ELSE {}]
                     /\ scans' = IF sent.ok /\ mark_ok
                                 THEN MarkNotificationSent(scans, scan.id)
                                 ELSE scans
    /\ workers' = [workers EXCEPT ![w] = AfterScan(w)]
    /\ UNCHANGED <<now, today, jobs, cache, active_polls,
                   last_api_call, api_call_count, session, sched, env, verification_store>>

\* a task that goes on without active_polls.remove
C27_NoRemove(w) ==
    /\ workers[w].pc = "remove"
    /\ workers' = [workers EXCEPT ![w].pc = "mark_done"]
    /\ UNCHANGED <<now, today, jobs, scans, cache, notifications, active_polls,
                   last_api_call, api_call_count, session, sched, env, verification_store, hist>>

\* active_polls.remove once poll_campground has returned
RemoveActive(w) ==
    /\ workers[w].pc = "remove"
    /\ active_polls' = active_polls \ {Campground(w)}
    /\ workers' = [workers EXCEPT ![w].pc = "mark_done"]
    /\ UNCHANGED <<now, today, jobs, scans, cache, notifications,
                   last_api_call, api_call_count, session, sched, env, verification_store, hist>>

\* mark_job_in_progress(id, false); an error is logged and the task goes on
MarkDone(w) ==
    /\ workers[w].pc = "mark_done"
    /\ \/ jobs' = [jobs EXCEPT ![Campground(w)] = MarkJobInProgress(@, FALSE)]
       \/ May("jobs_db") /\ UNCHANGED jobs
    /\ workers' = [workers EXCEPT ![w].pc = "update"]
    /\ UNCHANGED <<now, today, scans, cache, notifications, active_polls,
                   last_api_call, api_call_count, session, sched, env, verification_store, hist>>

\* update_job_success or update_job_error, and the task ends
UpdateJob(w) ==
    /\ workers[w].pc = "update"
    /\ LET g == Campground(w)
           job == workers[w].job
       IN IF workers[w].result = "ok"
          THEN /\ \/ jobs' = [jobs EXCEPT ![g] = UpdateJobSuccess(@, job)]
                  \/ May("jobs_db") /\ UNCHANGED jobs
               /\ UNCHANGED cache
          ELSE \/ May("jobs_db") /\ UNCHANGED <<jobs, cache>>   \* the first UPDATE fails
               \/ /\ jobs' = [jobs EXCEPT ![g] = UpdateJobError(@, job)]
                  /\ \/ cache' = [cache EXCEPT ![g][today] = ErrorRow(@, workers[w].result)]
                     \/ May("error_row") /\ UNCHANGED cache     \* the upsert fails
    /\ workers' = [workers EXCEPT ![w] = FreeWorker]
    /\ hist' = [hist EXCEPT !.before[w] = 0]
    /\ UNCHANGED <<now, today, scans, notifications, active_polls,
                   last_api_call, api_call_count, session, sched, env, verification_store>>

\* the clock
AdvanceTime ==
    /\ now < MaxTime
    /\ now' = now + 1
    /\ UNCHANGED <<today, jobs, scans, cache, notifications, active_polls,
                   last_api_call, api_call_count, session, sched, workers, env, verification_store, hist>>

\* the scheduler and the workers up to the diff
Polling ==
    \/ Tick
    \/ Admit
    \/ MarkAndSpawn
    \/ ResetApiCountIfNeeded
    \/ \E w \in WorkerIds : Begin(w)
    \/ \E w \in WorkerIds : WakeAndRequest(w)
    \/ \E w \in WorkerIds : Response(w)

Next ==
    \/ Polling
    \/ \E w \in WorkerIds : Notify(w)
    \/ \E w \in WorkerIds : RemoveActive(w)
    \/ \E w \in WorkerIds : MarkDone(w)
    \/ \E w \in WorkerIds : UpdateJob(w)
    \/ AdvanceTime

Spec == Init /\ [][Next]_vars

\* no site ever opens, so the notifier has nothing to do
NextSched ==
    \/ Polling
    \/ \E w \in WorkerIds : RemoveActive(w)
    \/ \E w \in WorkerIds : MarkDone(w)
    \/ \E w \in WorkerIds : UpdateJob(w)
    \/ AdvanceTime

SpecSched == InitSched /\ [][NextSched]_vars

SpecFaults == InitFaults /\ [][Next]_vars

SpecRate == InitRate /\ [][NextSched]_vars

(***************************************************************************)
(* A process that starts on the rows an earlier process left behind        *)
(***************************************************************************)
\* the process before stopped while a task was polling g2: its row is still
\* marked, the in-memory state of the new process is the one of new()
InitRestart ==
    InitWith(Campgrounds,
             [open |-> [g \in Campgrounds |-> {}],
              errors |-> {},
              faults |-> {},
              profiles |-> [u \in Users |-> Profile(TRUE, TRUE)],
              rows |-> [FreshRows EXCEPT !.inflight = {"g2"}],
              tally |-> FALSE,
              slots |-> NumWorkers])

\* the loop of start
Scheduler == Tick \/ Admit \/ MarkAndSpawn \/ ResetApiCountIfNeeded

\* the steps of the task spawned for a job that wait for nothing but the task
Task(w) ==
    \/ Begin(w)
    \/ WakeAndRequest(w)
    \/ RemoveActive(w)
    \/ MarkDone(w)
    \/ UpdateJob(w)

\* the interval of start ticks for ever, the runtime runs every spawned task,
\* every request is answered (Response is enabled exactly while the task
\* awaits, so its weak fairness is that the task does not await for ever),
\* and time passes
SpecRestart ==
    /\ InitRestart
    /\ [][NextSched]_vars
    /\ WF_vars(Scheduler)
    /\ \A w \in WorkerIds : WF_vars(Task(w))
    /\ \A w \in WorkerIds : []<>(workers[w].pc # "await")
    /\ WF_vars(AdvanceTime)

\* the sleep of enforce_rate_limit ends although the clock is not counted
\* past MaxTime
SleepElapses(w) ==
    /\ now = MaxTime
    /\ workers[w].pc = "sleep"
    /\ workers[w].wake > now
    /\ workers' = [workers EXCEPT ![w].wake = now]
    /\ UNCHANGED <<now, today, jobs, scans, cache, notifications, active_polls,
                   last_api_call, api_call_count, session, sched, env, verification_store, hist>>

\* every campground watched, one poll at a time; the request or the SELECT
\* of the scans may fail
InitRelease ==
    InitWith(Campgrounds,
             [open |-> [g \in Campgrounds |-> {}],
              errors |-> {"RateLimited"},
              faults |-> {"upstream", "scans_db"},
              profiles |-> [u \in Users |-> Profile(TRUE, TRUE)],
              rows |-> FreshRows,
              tally |-> FALSE,
              slots |-> 1])

NextRelease ==
    \/ NextSched
    \/ \E w \in WorkerIds : SleepElapses(w)

\* polls that can fail, under the same scheduling: every sleep and every
\* request ends, and the scheduler and the spawned tasks keep running
SpecRelease ==
    /\ InitRelease
    /\ [][NextRelease]_vars
    /\ WF_vars(Scheduler)
    /\ \A w \in WorkerIds : WF_vars(Task(w))
    /\ \A w \in WorkerIds : WF_vars(SleepElapses(w))
    /\ \A w \in WorkerIds : []<>(workers[w].pc # "await")
    /\ WF_vars(AdvanceTime)

(***************************************************************************)
(* Scans that pause, expire and end as the days pass                       *)
(***************************************************************************)
\* user_scans where scan 1 may be paused and scan 2 may carry an expiry
ScanTables ==
    {[InitScans(Campgrounds) EXCEPT ![1].status = status, ![2].expires_at = expires_at] :
        status \in {"active", "paused"}, expires_at \in {NoTime, 1, 2}}

InitDays ==
    \E scan_table \in ScanTables :
        InitWithScans(scan_table,
                      [open |-> [g \in Campgrounds |-> {}],
                       errors |-> {},
                       faults |-> {},
                       profiles |-> [u \in Users |-> Profile(TRUE, TRUE)],
                       rows |-> FreshRows,
                       tally |-> FALSE,
                       slots |-> 1])

\* CURRENT_DATE moves on
Midnight ==
    /\ today < MaxDate
    /\ today' = today + 1
    /\ UNCHANGED <<now, jobs, scans, cache, notifications, active_polls,
                   last_api_call, api_call_count, session, sched, workers, env, verification_store, hist>>

NextDays == NextSched \/ Midnight

SpecDays == InitDays /\ [][NextDays]_vars

(***************************************************************************)
(* The status decoder on its own                                           *)
(***************************************************************************)
StatusAlphabet == {"$", "A", "R", "W", "5", ".", "u"}

\* the status strings of the table and every short string over the alphabet
StatusStrings ==
    {StAvailable, StReserved, StNotAvailable, StNotReservable, StWalkUp,
     <<"A">>, <<"R">>, <<"X">>, <<"W">>, <<"N">>}
    \cup UNION {[1 .. n -> StatusAlphabet] : n \in 0 .. MaxStatusLen}

InitDecode ==
    InitWith({"g1"},
             [open |-> [g \in Campgrounds |-> {}],
              errors |-> {},
              faults |-> {},
              profiles |-> [u \in Users |-> Profile(TRUE, FALSE)],
              rows |-> FreshRows,
              tally |-> FALSE,
              slots |-> 1])

\* parse_availability_status applied to one status string
Decode ==
    /\ \E status \in StatusStrings :
          hist' = [hist EXCEPT !.decoded =
                      [known |-> TRUE, status |-> status,
                       result |-> ParseAvailabilityStatus(status)]]
    /\ UNCHANGED <<now, today, jobs, scans, cache, notifications, active_polls,
                   last_api_call, api_call_count, session, sched, workers, env, verification_store>>

SpecDecode == InitDecode /\ [][Decode]_vars

(***************************************************************************)
(* The hour after the gate has closed                                      *)
(***************************************************************************)
\* one campground polled by one task at a time, every request answered
InitHour ==
    InitWith({"g1"},
             [open |-> [g \in Campgrounds |-> {}],
              errors |-> {},
              faults |-> {},
              profiles |-> [u \in Users |-> Profile(TRUE, FALSE)],
              rows |-> FreshRows,
              tally |-> FALSE,
              slots |-> 1])

\* the clock after MaxTime
LateClock ==
    /\ now >= MaxTime
    /\ now < MaxHourTime
    /\ now' = now + 1
    /\ UNCHANGED <<today, jobs, scans, cache, notifications, active_polls,
                   last_api_call, api_call_count, session, sched, workers, env, verification_store, hist>>

NextHour == NextSched \/ LateClock

\* the loop of start and the spawned tasks keep running, every request ends
\* and time passes
SpecHour ==
    /\ InitHour
    /\ [][NextHour]_vars
    /\ WF_vars(Scheduler)
    /\ \A w \in WorkerIds : WF_vars(Task(w))
    /\ \A w \in WorkerIds : []<>(workers[w].pc # "await")
    /\ WF_vars(AdvanceTime)
    /\ WF_vars(LateClock)

\* the same campground with requests that can fail
InitBackoff ==
    InitWith({"g1"},
             [open |-> [g \in Campgrounds |-> {}],
              errors |-> {"RateLimited"},
              faults |-> {"upstream"},
              profiles |-> [u \in Users |-> Profile(TRUE, FALSE)],
              rows |-> FreshRows,
              tally |-> FALSE,
              slots |-> 1])

\* the same scheduling with a clock that goes on past the error backoff
SpecBackoff ==
    /\ InitBackoff
    /\ [][NextHour]_vars
    /\ WF_vars(Scheduler)
    /\ \A w \in WorkerIds : WF_vars(Task(w))
    /\ \A w \in WorkerIds : []<>(workers[w].pc # "await")
    /\ WF_vars(AdvanceTime)
    /\ WF_vars(LateClock)

(***************************************************************************)
(* A database whose statements on polling_jobs can fail                    *)
(***************************************************************************)
\* every campground watched, one poll at a time
InitClaim ==
    InitWith(Campgrounds,
             [open |-> [g \in Campgrounds |-> {}],
              errors |-> {},
              faults |-> {"jobs_db"},
              profiles |-> [u \in Users |-> Profile(TRUE, FALSE)],
              rows |-> FreshRows,
              tally |-> FALSE,
              slots |-> 1])

SpecClaim == InitClaim /\ [][NextSched]_vars

(***************************************************************************)
(* An upstream that answers 401 or 403                                     *)
(***************************************************************************)
\* one campground polled by one task at a time; the request is answered or
\* refused
InitAuth ==
    InitWith({"g1"},
             [open |-> [g \in Campgrounds |-> {}],
              errors |-> {"AuthenticationFailed"},
              faults |-> {"upstream"},
              profiles |-> [u \in Users |-> Profile(TRUE, FALSE)],
              rows |-> FreshRows,
              tally |-> FALSE,
              slots |-> 1])

SpecAuth == InitAuth /\ [][NextSched]_vars

(***************************************************************************)
(* The session manager on its own                                          *)
(***************************************************************************)
\* validate_session by the answer to the HEAD: 2xx or 404, another status, or
\* no response
ValidateSessionState(state, answer) ==
    CASE answer = "valid" ->
            [last_validated |-> now, is_valid |-> TRUE, failure_count |-> 0]
      [] answer = "invalid" ->
            [last_validated |-> now, is_valid |-> FALSE,
             failure_count |-> state.failure_count + 1]
      [] OTHER -> state

\* a homepage that answers or fails
InitSessionOnly ==
    InitWith({"g1"},
             [open |-> [g \in Campgrounds |-> {}],
              errors |-> {},
              faults |-> {"session"},
              profiles |-> [u \in Users |-> Profile(TRUE, FALSE)],
              rows |-> FreshRows,
              tally |-> FALSE,
              slots |-> 1])

\* one call of ensure_valid_session
EnsureValidSession ==
    /\ \E outcome \in SessionOutcomes :
          LET refreshed == NeedsValidation(session)
              after == IF refreshed THEN CreateNewSession(session, outcome) ELSE session
          IN /\ outcome = "success" \/ (refreshed /\ May("session"))
             /\ outcome = "status" => session.failure_count <= MaxFailures
             /\ session' = after
             /\ hist' = [hist EXCEPT !.ensured =
                            [known |-> TRUE, before |-> session, at |-> now,
                             refreshed |-> refreshed,
                             outcome |-> IF refreshed THEN outcome ELSE "none",
                             after |-> after]]
    /\ UNCHANGED <<now, today, jobs, scans, cache, notifications, active_polls,
                   last_api_call, api_call_count, sched, workers, env, verification_store>>

\* one call of validate_session
ValidateSession ==
    /\ \E answer \in {"valid", "invalid", "network"} :
          /\ answer = "valid" \/ May("session")
          /\ answer = "invalid" => session.failure_count <= MaxFailures
          /\ session' = ValidateSessionState(session, answer)
    /\ UNCHANGED <<now, today, jobs, scans, cache, notifications, active_polls,
                   last_api_call, api_call_count, sched, workers, env, verification_store, hist>>

\* the clock of these runs
SessionClock ==
    /\ now < MaxSessionTime
    /\ now' = now + 1
    /\ UNCHANGED <<today, jobs, scans, cache, notifications, active_polls,
                   last_api_call, api_call_count, session, sched, workers, env, verification_store, hist>>

NextSession == EnsureValidSession \/ ValidateSession \/ SessionClock

SpecSession == InitSessionOnly /\ [][NextSession]_vars

(***************************************************************************)
(* One dispatch of the notifier on its own                                 *)
(***************************************************************************)
\* every users row and every way the service can be built
AllProfiles ==
    [prefs_email : BOOLEAN, prefs_sms : BOOLEAN, email_verified : BOOLEAN,
     phone_verified : BOOLEAN, phone : BOOLEAN, email_service : BOOLEAN,
     sms_service : BOOLEAN]

\* transports that can fail; the lookups and the inserts succeed
InitDispatch ==
    InitWith({"g1"},
             [open |-> [g \in Campgrounds |-> {}],
              errors |-> {},
              faults |-> {"email_send", "sms_send"},
              profiles |-> [u \in Users |-> Profile(TRUE, FALSE)],
              rows |-> FreshRows,
              tally |-> FALSE,
              slots |-> 1])

\* send_availability_notification for one user
Dispatch ==
    /\ \E p \in AllProfiles, o \in DispatchOutcomes :
          /\ Allowed(o)
          /\ hist' = [hist EXCEPT !.dispatch =
                         [known |-> TRUE, profile |-> p, outcome |-> o,
                          result |-> SendAvailabilityNotification(p, o)]]
    /\ UNCHANGED <<now, today, jobs, scans, cache, notifications, active_polls,
                   last_api_call, api_call_count, session, sched, workers, env, verification_store>>

SpecDispatch == InitDispatch /\ [][Dispatch]_vars

(***************************************************************************)
(* Rows of different priority and age                                      *)
(***************************************************************************)
\* the priority and next_poll_at the rows can have when the process starts
StartRows ==
    {[FreshRows EXCEPT !.priority = priority, !.due = due] :
        priority \in [Campgrounds -> {1, 2}], due \in [Campgrounds -> {0 - 1, 0}]}

InitOrder ==
    \E rows \in StartRows :
        InitWith(Campgrounds,
                 [open |-> [g \in Campgrounds |-> {}],
                  errors |-> {},
                  faults |-> {},
                  profiles |-> [u \in Users |-> Profile(TRUE, TRUE)],
                  rows |-> rows,
                  tally |-> FALSE,
                  slots |-> NumWorkers])

SpecOrder == InitOrder /\ [][NextSched]_vars

(***************************************************************************)
(* The availability store on its own, under windows that change            *)
(***************************************************************************)
\* the windows calculate_date_range yields as scans are created and complete
Windows == {range \in Dates \X Dates : range[1] < range[2]}

\* a campground with scans, all its cells openable
InitStore ==
    InitWith({"g2"},
             [open |-> [g \in Campgrounds |-> UpstreamCells(g)],
              errors |-> {"RateLimited"},
              faults |-> {"upstream"},
              profiles |-> [u \in Users |-> Profile(TRUE, FALSE)],
              rows |-> FreshRows,
              tally |-> FALSE,
              slots |-> 1])

\* poll_campground on a 2xx response: the fetch of the window, then
\* update_availability_cache
WriteSnapshot ==
    /\ \E g \in Campgrounds, range \in Windows :
          \E open \in SUBSET env.open[g] :
             LET snap == InternalCampgroundAvailability(
                             UpstreamResponse(open, MonthStart(range[1])),
                             range[1], range[2])
             IN /\ LoadedScans(g) # <<>>
                /\ cache' = [cache EXCEPT ![g] =
                       UpdateAvailabilityCache(@, snap, SnapshotDates(snap))]
                /\ hist' = [hist EXCEPT !.written =
                       [known |-> TRUE, campground_id |-> g, range |-> range,
                        sites |-> snap,
                        healed |-> {d \in SnapshotDates(snap) :
                                      cache[g][d].check_status = "error"}]]
    /\ UNCHANGED <<now, today, jobs, scans, notifications, active_polls,
                   last_api_call, api_call_count, session, sched, workers, env, verification_store>>

\* the upsert at the end of update_job_error, on the row of the current date
WriteError ==
    /\ \E g \in Campgrounds, kind \in env.errors :
          /\ LoadedScans(g) # <<>>
          /\ cache' = [cache EXCEPT ![g][today] = ErrorRow(@, kind)]
          /\ hist' = [hist EXCEPT !.written = NotWritten]
    /\ UNCHANGED <<now, today, jobs, scans, notifications, active_polls,
                   last_api_call, api_call_count, session, sched, workers, env, verification_store>>

NextStore == WriteSnapshot \/ WriteError

SpecStore == InitStore /\ [][NextStore]_vars

(***************************************************************************)
(* Properties                                                              *)
(***************************************************************************)
\* the task is inside poll_campground
InPoll(w) == workers[w].pc \in {"begin", "sleep", "await", "notify"}

\* the task ends with update_job_success / update_job_error in this step
EndsOk(w) ==
    workers[w].pc = "update" /\ workers[w].result = "ok" /\ workers'[w].pc = "free"

EndsFailed(w) ==
    workers[w].pc = "update" /\ workers[w].result # "ok" /\ workers'[w].pc = "free"

SentRecords(id) ==
    notifications[<<id, "email", "sent">>] + notifications[<<id, "sms", "sent">>]

\* C1: for every campground id, under every interleaving of scheduler and
\* worker steps, at most one worker is inside poll_campground for it.
C1_OnePollPerCampground ==
    \A g \in Campgrounds :
        Cardinality({w \in WorkerIds : InPoll(w) /\ Campground(w) = g}) <= 1

\* a second task of the campground polls while the first is still in its tail
C1_Witness ==
    \E w1, w2 \in WorkerIds :
        /\ w1 # w2
        /\ Campground(w1) = Campground(w2)
        /\ InPoll(w1)
        /\ workers[w2].pc = "update"

\* C2: over any sequence of polls, transport failures included, at most one
\* dispatch that delivers a notification is made for a scan.
C2_AtMostOneDelivery == \A id \in ScanIds : hist.delivered[id] <= 1

\* C3: once a sent record exists for a scan and the poll that wrote it has
\* finished, the scan's notification_sent is true.
C3_SentImpliesNotified ==
    \A id \in ScanIds :
        (/\ SentRecords(id) > 0
         /\ ~\E w \in WorkerIds : InPoll(w) /\ Campground(w) = scans[id].campground_id)
        => scans[id].notification_sent

\* C4: no step of the scheduler, a worker or the notifier takes
\* notification_sent from true back to false.
C4_LatchNeverCleared ==
    [][\A id \in ScanIds : scans[id].notification_sent => scans'[id].notification_sent]_vars

\* a notified scan meets new sites of its window again in a later poll
C4_Witness ==
    \E w \in WorkerIds :
        /\ workers[w].pc = "notify"
        /\ scans[workers[w].scans[workers[w].idx].id].notification_sent
        /\ RelevantSites(workers[w].scans[workers[w].idx], workers[w].new_sites) # <<>>

\* C5: a poll that fetches the snapshot the poll right before it fetched has an
\* empty diff, writes no notification record and changes no notification_sent.
C5_ReplayIsSilent ==
    [][\A w \in WorkerIds :
          /\ (/\ workers[w].pc = "await"
              /\ workers'[w].pc # "await"
              /\ workers'[w].result = "ok"
              /\ hist'.same[Campground(w)])
             => /\ workers'[w].new_sites = <<>>
                /\ workers'[w].pc = "remove"
                /\ notifications' = notifications
                /\ scans' = scans
          /\ (/\ workers[w] # workers'[w]
              /\ ~InPoll(w)
              /\ workers[w].pc # "free"
              /\ workers[w].result = "ok"
              /\ hist.same[Campground(w)])
             => /\ notifications' = notifications
                /\ scans' = scans]_vars

\* the replayed snapshot has an open site and a scan is still not notified
C5_Witness ==
    \E w \in WorkerIds :
        /\ workers[w].pc = "remove"
        /\ workers[w].result = "ok"
        /\ workers[w].new_sites = <<>>
        /\ hist.same[Campground(w)]
        /\ hist.last[Campground(w)].open # {}
        /\ \E i \in 1 .. Len(workers[w].scans) :
              ~scans[workers[w].scans[i].id].notification_sent

C7_FailureIncrementsErrors ==
    [][\A w \in WorkerIds :
          EndsFailed(w) =>
              LET g == Campground(w)
              IN /\ jobs'[g].consecutive_errors = hist.before[w] + 1
                 /\ ~jobs'[g].is_being_polled
                 /\ jobs'[g].next_poll_at =
                        IF jobs'[g].consecutive_errors >= MaxConsecutiveErrors
                        THEN now + ErrorBackoffDuration
                        ELSE now + jobs[g].poll_frequency_minutes]_vars

\* C8: a poll that fails at session validation, the fetch, the cache read or
\* the cache write has written no notification record and changed no
\* notification_sent, and its error is upserted at (campground, today).
C8_FailedPollIsSilent ==
    [][\A w \in WorkerIds :
          /\ (workers[w].result = "ok" /\ workers'[w].result # "ok")
             => /\ workers[w].pc \in {"begin", "await"}
                /\ workers[w].new_sites = <<>>
                /\ notifications' = notifications
                /\ scans' = scans
          /\ (workers[w].result # "ok" /\ workers[w] # workers'[w])
             => /\ notifications' = notifications
                /\ scans' = scans
          /\ EndsFailed(w)
             => /\ cache'[Campground(w)][today].check_status = "error"
                /\ cache'[Campground(w)][today].error_message = workers[w].result]_vars

\* a cache write stored an open site and failed; nothing was notified
C8_Witness ==
    \E g \in Campgrounds :
        /\ cache[g][today].check_status = "error"
        /\ cache[g][today].error_message = "Database"
        /\ \E d \in Dates : cache[g][d].check_status = "success" /\ cache[g][d].available_sites > 0
        /\ \A id \in ScanIds : ~scans[id].notification_sent
        /\ \A k \in DOMAIN notifications : notifications[k] = 0

\* C9: any two upstream availability requests are at least min_api_interval
\* apart.
C9_RequestsSpaced ==
    [][\A w \in WorkerIds :
          (workers[w].pc # "await" /\ workers'[w].pc = "await")
          => (hist.last_request = NoTime \/ now - hist.last_request >= MinApiInterval)]_vars

\* C10: when the loop meets a candidate with the hourly counter at the
\* maximum, the tick ends: nothing is inserted in active_polls, no worker is
\* spawned and is_being_polled of every candidate left stays false.
C10_GateClosesTick ==
    [][(/\ sched.pc = "loop"
        /\ sched' # sched
        /\ ~AlreadyPolling(Head(sched.queue).campground_id)
        /\ api_call_count >= MaxCallsPerHour)
       => /\ sched'.pc = "reset"
          /\ sched'.queue = <<>>
          /\ active_polls' = active_polls
          /\ jobs' = jobs
          /\ workers' = workers
          /\ \A i \in 1 .. Len(sched.queue) :
                ~jobs'[sched.queue[i].campground_id].is_being_polled]_vars

\* the gate has closed on a due job
C10_Witness ==
    /\ sched.pc = "reset"
    /\ hist.dropped # {}
    /\ api_call_count >= MaxCallsPerHour
    /\ \A g \in hist.dropped : g \notin active_polls /\ ~jobs[g].is_being_polled

\* C11: the engine sends at most max_calls_per_hour upstream availability
\* requests, successful or failed, within one hour.
C11_HourlyBudget == hist.first_hour <= MaxCallsPerHour

\* the written snapshot grouped by date
GroupedByDate(sites) == [d \in SnapshotDates(sites) |-> SitesOnDate(sites, d)]

\* C12: after update_availability_cache has written a snapshot,
\* get_cached_availability on the same campground and window returns exactly
\* the written sites grouped by date, no site more and no site less.
C12_ReadReturnsWritten ==
    hist.written.known =>
        GetCachedAvailability(hist.written.campground_id,
                              hist.written.range[1], hist.written.range[2])
            = GroupedByDate(hist.written.sites)

\* C13: every row of the store with check_status success has availability
\* data and no error message, whatever success and error writes came before.
C13_SuccessRowsAreClean ==
    \A g \in Campgrounds, d \in Dates :
        cache[g][d].check_status = "success" =>
            /\ cache[g][d].availability_data # JsonNull
            /\ cache[g][d].error_message = "NULL"

\* a success write has replaced an error row
C13_Witness ==
    /\ hist.written.known
    /\ \E d \in hist.written.healed :
          cache[hist.written.campground_id][d].check_status = "success"

\* the step records, delivers or marks a notification of the scan
Dispatched(id) ==
    \/ hist'.delivered[id] # hist.delivered[id]
    \/ scans'[id].notification_sent # scans[id].notification_sent
    \/ \E channel \in {"email", "sms"}, status \in {"sent", "failed"} :
          notifications'[<<id, channel, status>>] # notifications[<<id, channel, status>>]

\* C14: a scan is only dispatched when a newly available site has a date d
\* with check_in <= d < check_out; a site on the check-out date or outside the
\* window never triggers the dispatch of that scan.
C14_DispatchNeedsDateInWindow ==
    [][\A id \in ScanIds :
          Dispatched(id) =>
              \E w \in WorkerIds :
                  /\ workers[w].pc = "notify"
                  /\ workers[w].scans[workers[w].idx].id = id
                  /\ \E i \in 1 .. Len(workers[w].new_sites) :
                        /\ scans[id].check_in_date <= workers[w].new_sites[i].date
                        /\ workers[w].new_sites[i].date < scans[id].check_out_date]_vars

\* the only new sites are on the check-out date of scan 1, inside the window
\* of scan 2: the loop has passed both, scan 2 was served and scan 1 was not
C14_Witness ==
    \E w \in WorkerIds :
        /\ workers[w].pc = "remove"
        /\ workers[w].new_sites # <<>>
        /\ \A i \in 1 .. Len(workers[w].new_sites) :
              workers[w].new_sites[i].date = scans[1].check_out_date
        /\ {workers[w].scans[i].id : i \in 1 .. Len(workers[w].scans)} = {1, 2}
        /\ scans[2].check_in_date <= scans[1].check_out_date
        /\ scans[1].check_out_date < scans[2].check_out_date
        /\ scans[2].notification_sent
        /\ hist.delivered[2] > 0
        /\ hist.delivered[1] = 0
        /\ ~scans[1].notification_sent
        /\ \A channel \in {"email", "sms"}, status \in {"sent", "failed"} :
              notifications[<<1, channel, status>>] = 0

\* C15: when the window of the scans straddles a month boundary, the fetched
\* snapshot has sites for the dates of both months inside the window.
C15_BothMonthsFetched ==
    (hist.written.known /\ MonthStart(hist.written.range[1]) # MonthStart(hist.written.range[2]))
        => \A d \in hist.written.range[1] .. hist.written.range[2] :
               d \in SnapshotDates(hist.written.sites)

\* the breaker of the row is tripped and its backoff has not elapsed
TrippedAndWaiting(campground_id) ==
    /\ jobs[campground_id].consecutive_errors >= MaxConsecutiveErrors
    /\ now < jobs[campground_id].next_poll_at

\* C16: a job whose consecutive_errors has reached max_consecutive_errors is
\* not selected by the scheduler before its next_poll_at has elapsed.
C16_TrippedJobWaits ==
    [][(sched.pc = "idle" /\ sched'.pc # "idle") =>
          \A i \in 1 .. Len(sched'.queue) :
              ~TrippedAndWaiting(sched'.queue[i].campground_id)]_vars

\* a tick has selected while a job with scans, not in flight, was tripped
C16_Witness ==
    /\ sched.pc = "reset"
    /\ \A w \in WorkerIds : workers[w].pc = "free"
    /\ \E g \in Campgrounds :
          /\ TrippedAndWaiting(g)
          /\ jobs[g].active_scan_count > 0
          /\ ~jobs[g].is_being_polled
          /\ g \notin active_polls

\* C17: a job with active scans whose row was in flight when the process
\* stopped is eventually claimed again by the process that starts after it.
C17_RestartResumes ==
    \A g \in Campgrounds :
        (g \in env.rows.inflight /\ jobs[g].active_scan_count > 0) ~> (g \in active_polls)

\* the step writes a failed notification record of the scan: a transport
\* returned an error
TransportFailed(id) ==
    \E channel \in {"email", "sms"} :
        notifications'[<<id, channel, "failed">>] > notifications[<<id, channel, "failed">>]

\* C18: a transport error while notifying one scan does not stop the poll: the
\* loop goes on to the next scan, the poll stays successful, and the update of
\* a poll that went through the loop resets consecutive_errors and sets the
\* next poll by poll_frequency_minutes.
C18_TransportErrorIsContained ==
    [][\A w \in WorkerIds :
          /\ (workers[w].pc = "notify" /\ TransportFailed(workers[w].scans[workers[w].idx].id))
             => /\ workers'[w].result = "ok"
                /\ workers'[w].scans = workers[w].scans
                /\ IF workers[w].idx < Len(workers[w].scans)
                   THEN workers'[w].pc = "notify" /\ workers'[w].idx = workers[w].idx + 1
                   ELSE workers'[w].pc = "remove"
          /\ (EndsOk(w) /\ workers[w].new_sites # <<>>)
             => /\ jobs'[Campground(w)].consecutive_errors = 0
                /\ jobs'[Campground(w)].next_poll_at =
                       now + workers[w].job.poll_frequency_minutes]_vars

\* the poll found a site in the window of both scans, the transport failed for
\* scan 1 and scan 2 was served after it; the job was then recorded as success
C18_Witness ==
    /\ \A w \in WorkerIds : workers[w].pc = "free"
    /\ jobs["g1"].last_polled = now
    /\ jobs["g1"].consecutive_errors = 0
    /\ jobs["g1"].next_poll_at = now + jobs["g1"].poll_frequency_minutes
    /\ hist.last["g1"].known
    /\ \E cell \in hist.last["g1"].open :
          /\ scans[1].check_in_date <= cell[2] /\ cell[2] < scans[1].check_out_date
          /\ scans[2].check_in_date <= cell[2] /\ cell[2] < scans[2].check_out_date
    /\ notifications[<<1, "email", "failed">>] = 1
    /\ notifications[<<1, "email", "sent">>] = 0
    /\ ~scans[1].notification_sent
    /\ hist.delivered[1] = 0
    /\ \A channel \in {"email", "sms"} : notifications[<<2, channel, "failed">>] = 0
    /\ hist.delivered[2] = 1
    /\ scans[2].notification_sent

\* the step is a refresh of ensure_valid_session that fails
RefreshFails(w) ==
    /\ workers[w].pc = "begin"
    /\ workers'[w].pc = "remove"
    /\ workers'[w].result = "ApiError"

\* C19: every failed session refresh, whether no response came or the status
\* was not 2xx, adds exactly 1 to failure_count and leaves the session invalid.
C19_FailedRefreshCounts ==
    [][\A w \in WorkerIds :
          RefreshFails(w) =>
              /\ session'.failure_count = session.failure_count + 1
              /\ ~session'.is_valid]_vars

\* the first job comes strictly before the second: higher priority, or the
\* same priority and an earlier next_poll_at
SpawnsFirst(a, b) ==
    \/ a.priority > b.priority
    \/ (a.priority = b.priority /\ a.next_poll_at < b.next_poll_at)

\* C20: the jobs selected in one tick are handed to tasks in priority
\* descending order and, for equal priority, earlier next_poll_at first: no job
\* still waiting in the tick's list comes strictly before one taken earlier.
C20_SpawnOrder ==
    /\ \A i, j \in 1 .. Len(sched.queue) :
          i < j => ~SpawnsFirst(sched.queue[j], sched.queue[i])
    /\ sched.pc = "mark" =>
          \A i \in 1 .. Len(sched.queue) : ~SpawnsFirst(sched.queue[i], sched.cur)

\* the task of the job of higher priority has been spawned and the tick is
\* about to spawn the one of lower priority, which was due earlier
C20_Witness ==
    /\ sched.pc = "mark"
    /\ \E w \in WorkerIds :
          /\ workers[w].pc = "begin"
          /\ workers[w].job.priority > sched.cur.priority
          /\ workers[w].job.next_poll_at > sched.cur.next_poll_at
          /\ \A v \in WorkerIds \ {w} : workers[v].pc = "free"
    /\ now = 0
    /\ \A g \in Campgrounds : jobs[g].last_polled = NoTime

\* the scans of the campground that are eligible now
Eligible(campground_id) ==
    {id \in ScanIds :
        /\ scans[id].campground_id = campground_id
        /\ scans[id].status = "active"
        /\ scans[id].check_out_date >= today
        /\ (scans[id].expires_at = NoTime \/ scans[id].expires_at > now)}

\* C21: the worker loads exactly the scans of the campground with status
\* active, check-out >= today and expires_at null or later than now; a scan with
\* check-out = today is loaded, one with check-out < today is not.
C21_LoadsEligibleScans ==
    [][\A w \in WorkerIds :
          (workers[w].pc = "begin" /\ workers'[w].pc # "begin" /\ workers'[w].result = "ok")
              => {workers'[w].scans[i].id : i \in 1 .. Len(workers'[w].scans)}
                     = Eligible(Campground(w))]_vars

\* the task loaded scan 2, whose check-out is today and whose expiry is ahead,
\* and not scan 1, active with a check-out before today
C21_Witness ==
    \E w \in WorkerIds :
        /\ workers[w].pc \in {"sleep", "await"}
        /\ {workers[w].scans[i].id : i \in 1 .. Len(workers[w].scans)} = {2}
        /\ scans[2].check_out_date = today
        /\ scans[2].expires_at # NoTime
        /\ scans[2].expires_at > now
        /\ scans[1].status = "active"
        /\ scans[1].campground_id = scans[2].campground_id
        /\ scans[1].check_out_date < today

\* C22: the decoder of status strings is total: Available and A give
\* (true, none); Reserved, Not Available, Not Reservable, Walk-up, R, X, W and N
\* give (false, none); a string that starts with $ gives available = true;
\* every other string gives (false, none).
C22_StatusTable ==
    hist.decoded.known =>
        LET status == hist.decoded.status
            result == hist.decoded.result
        IN /\ result[1] \in BOOLEAN
           /\ result[2] = 0 - 1 \/ result[2] \in Nat
           /\ IF status = <<"A", "v", "a", "i", "l", "a", "b", "l", "e">> \/ status = <<"A">>
              THEN result = <<TRUE, 0 - 1>>
              ELSE IF status # <<>> /\ status[1] = "$"
              THEN result[1] = TRUE
              ELSE result = <<FALSE, 0 - 1>>

\* a price string has been decoded to available with its price
C22_Witness ==
    /\ hist.decoded.known
    /\ hist.decoded.status = <<"$", ".", "5">>
    /\ hist.decoded.result = <<TRUE, 50>>

\* the positions of the sites of current that are available and have no
\* available entry of the same site under their date in previous
NewPositions(previous, current) ==
    {i \in 1 .. Len(current) :
        /\ current[i].available
        /\ \/ current[i].date \notin DOMAIN previous
           \/ \A k \in 1 .. Len(previous[current[i].date]) :
                 \/ previous[current[i].date][k].site_id # current[i].site_id
                 \/ ~previous[current[i].date][k].available}

\* the sites at the positions, in the order of the positions
InOrder(current, positions) ==
    [n \in 1 .. Cardinality(positions) |->
        current[CHOOSE i \in positions : Cardinality({j \in positions : j < i}) = n - 1]]

\* C23: the diff of a poll is, in the order of the fetched snapshot, exactly the
\* available sites for which the previous snapshot has no entry for the date or
\* no available entry of the same site under the date.
C23_DiffIsNewSitesInOrder ==
    [][\A w \in WorkerIds :
          (workers[w].pc = "await" /\ workers'[w].pc # "await" /\ workers'[w].result = "ok")
              => LET g == Campground(w)
                     previous == GetCachedAvailability(g, workers[w].range[1], workers[w].range[2])
                     current == InternalCampgroundAvailability(
                                    UpstreamResponse(hist'.last[g].open,
                                                     MonthStart(workers[w].range[1])),
                                    workers[w].range[1], workers[w].range[2])
                 IN workers'[w].new_sites = InOrder(current, NewPositions(previous, current))]_vars

\* two sites are open in the fetched snapshot; the diff holds only the second,
\* so the first was open before and the second was not
C23_Witness ==
    \E w \in WorkerIds :
        /\ workers[w].pc = "notify"
        /\ Cardinality(hist.last[Campground(w)].open) = 2
        /\ Len(workers[w].new_sites) = 1
        /\ workers[w].new_sites[1].site_id = "s2"
        /\ cache[Campground(w)][workers[w].new_sites[1].date].check_status = "success"

\* the row is due, has scans, is not marked in flight and is not tripped
Selectable(row) ==
    /\ row.active_scan_count > 0
    /\ row.next_poll_at <= now
    /\ row.is_being_polled = FALSE
    /\ row.consecutive_errors < MaxConsecutiveErrors

\* the step puts the campground in the in-flight set, marks its row or spawns
\* its task
ClaimStep(g) ==
    \/ g \in active_polls' \ active_polls
    \/ (jobs'[g].is_being_polled /\ ~jobs[g].is_being_polled)
    \/ \E w \in WorkerIds :
          workers[w].pc = "free" /\ workers'[w].pc # "free" /\ workers'[w].job.campground_id = g

\* C24: the scheduler claims a job (in-flight set, is_being_polled = true, a
\* task) only if the row, when it was selected, had scans, was due, was not
\* marked in flight and was not tripped, and the campground is not in the
\* in-flight set when it is claimed.
C24_ClaimsOnlySelectable ==
    [][/\ (sched.pc = "idle" /\ sched'.pc # "idle") =>
             \A i \in 1 .. Len(sched'.queue) :
                 /\ sched'.queue[i] = jobs[sched'.queue[i].campground_id]
                 /\ Selectable(jobs[sched'.queue[i].campground_id])
       /\ (sched.pc # "idle" /\ sched'.pc # "idle") =>
             \A i \in 1 .. Len(sched'.queue) :
                 \E k \in 1 .. Len(sched.queue) : sched'.queue[i] = sched.queue[k]
       /\ (sched.pc = "loop" /\ sched'.pc = "mark") =>
             /\ sched'.cur = Head(sched.queue)
             /\ sched'.cur.campground_id \notin active_polls
       /\ \A g \in Campgrounds :
             ClaimStep(g) =>
                /\ sched.pc \in {"loop", "mark"}
                /\ g = (IF sched.pc = "loop" THEN Head(sched.queue) ELSE sched.cur).campground_id
                /\ (sched.pc = "mark" => g \in active_polls)]_vars

\* the scheduler has claimed a job that failed once before and is due again
C24_Witness ==
    /\ sched.pc = "mark"
    /\ sched.cur.campground_id \in active_polls
    /\ sched.cur.consecutive_errors = 1
    /\ sched.cur.next_poll_at > 0
    /\ sched.cur.next_poll_at <= now
    /\ ~sched.cur.is_being_polled

\* C25: every write to a row of polling_jobs is made by the task that holds
\* the in-flight claim of the campground: the final update of a task never
\* lands while the campground is claimed again, by the scheduler or for
\* another task.
C25_UpdateByOwner ==
    [][\A w \in WorkerIds :
          (workers[w].pc = "update" /\ workers'[w].pc = "free") =>
              /\ \A v \in WorkerIds \ {w} :
                    workers[v].pc = "free" \/ Campground(v) # Campground(w)
              /\ ~(sched.pc = "mark" /\ sched.cur.campground_id = Campground(w))
              /\ Campground(w) \notin active_polls]_vars

\* C26: is_being_polled of a row is true only between the claim of the job and
\* its release by the claiming task: never true when no task of the campground
\* is in flight, never false while a task of the campground is still polling.
C26_FlagFollowsClaim ==
    /\ \A g \in Campgrounds :
          jobs[g].is_being_polled =>
              \E w \in WorkerIds : workers[w].pc # "free" /\ Campground(w) = g
    /\ \A w \in WorkerIds :
          InPoll(w) => jobs[Campground(w)].is_being_polled

\* C27: every job the scheduler claims is eventually released, whether its
\* poll succeeds or fails: the campground leaves the in-flight set and
\* is_being_polled is false again.
C27_ClaimIsReleased ==
    \A g \in Campgrounds :
        (\E w \in WorkerIds : workers[w].pc # "free" /\ Campground(w) = g)
            ~> (g \notin active_polls /\ ~jobs[g].is_being_polled)

\* a job whose poll failed has been released
C27_Witness ==
    \E g \in Campgrounds :
        /\ jobs[g].consecutive_errors > 0
        /\ g \notin active_polls
        /\ ~jobs[g].is_being_polled
        /\ \A w \in WorkerIds : workers[w].pc = "free"

\* the task of the slot is in a poll that found no eligible scan
EmptyPoll(w) ==
    \/ /\ workers[w].pc = "begin"
       /\ Eligible(Campground(w)) = {}
       /\ workers'[w].result = "ok"
    \/ /\ workers[w].pc \in {"remove", "mark_done", "update"}
       /\ workers[w].scans = <<>>
       /\ workers[w].result = "ok"

\* C28: a claimed job without eligible scans makes no upstream request, leaves
\* the hourly counter, the last-call time, the availability store and the
\* notifications as they are, and its task releases it: the campground leaves
\* the in-flight set and is_being_polled is written false.
C28_EmptyPollTouchesNothing ==
    [][\A w \in WorkerIds :
          (workers'[w] # workers[w] /\ EmptyPoll(w)) =>
              /\ workers'[w].pc \in {"remove", "mark_done", "update", "free"}
              /\ hist'.last_request = hist.last_request
              /\ UNCHANGED <<last_api_call, api_call_count, cache, notifications>>
              /\ workers[w].pc = "remove" => Campground(w) \notin active_polls'
              /\ workers[w].pc = "mark_done" => ~jobs'[Campground(w)].is_being_polled
              /\ workers[w].pc = "update" => ~jobs'[Campground(w)].is_being_polled]_vars

\* a poll without eligible scans has left the in-flight set and cleared the flag
C28_Witness ==
    \E w \in WorkerIds :
        /\ workers[w].pc = "update"
        /\ workers[w].scans = <<>>
        /\ workers[w].result = "ok"
        /\ Eligible(Campground(w)) = {}
        /\ Campground(w) \notin active_polls
        /\ ~jobs[Campground(w)].is_being_polled

\* the request of the task goes out in this step
RequestStep(w) == workers[w].pc # "await" /\ workers'[w].pc = "await"

\* C29: one poll sends at most one upstream request, however many scans it
\* loaded, and the request asks for the range from the earliest check-in to
\* the latest check-out of those scans.
C29_OneRequestOverUnion ==
    [][\A w \in WorkerIds :
          /\ RequestStep(w) =>
                LET loaded == workers'[w].scans
                    ids == 1 .. Len(loaded)
                IN /\ workers[w].pc \in {"begin", "sleep"}
                   /\ loaded # <<>>
                   /\ \E i \in ids : workers'[w].range[1] = loaded[i].check_in_date
                   /\ \A i \in ids : workers'[w].range[1] <= loaded[i].check_in_date
                   /\ \E i \in ids : workers'[w].range[2] = loaded[i].check_out_date
                   /\ \A i \in ids : workers'[w].range[2] >= loaded[i].check_out_date
          /\ (workers[w].pc # "sleep" /\ workers'[w].pc = "sleep") => workers[w].pc = "begin"
          /\ (workers[w].pc # "begin" /\ workers'[w].pc = "begin") => workers[w].pc = "free"
          /\ workers[w].pc = "await" =>
                /\ workers'[w].range = workers[w].range
                /\ workers'[w].pc \in {"await", "notify", "remove"}]_vars

\* the request of a poll that loaded two scans with different windows is out
C29_Witness ==
    \E w \in WorkerIds :
        /\ workers[w].pc = "await"
        /\ Len(workers[w].scans) = 2
        /\ workers[w].scans[1].check_in_date < workers[w].scans[2].check_in_date
        /\ workers[w].scans[1].check_out_date < workers[w].scans[2].check_out_date
        /\ workers[w].range = <<workers[w].scans[1].check_in_date,
                                workers[w].scans[2].check_out_date>>

\* the sends tried are those of the channels given, in the order email, sms
TriedAre(result, email, sms) ==
    result.tried = (IF email THEN <<"email">> ELSE <<>>) \o (IF sms THEN <<"sms">> ELSE <<>>)

\* one record per send tried: sent with an external id when the transport
\* delivered, failed without one when it did not
OneRecordPerSend(result, outcome) ==
    /\ Len(result.recs) = Len(result.tried)
    /\ Len(result.ext) = Len(result.tried)
    /\ \A i \in 1 .. Len(result.tried) :
          LET delivered == IF result.tried[i] = "email" THEN outcome.email_send
                                                       ELSE outcome.sms_send
          IN /\ result.recs[i] = <<result.tried[i], IF delivered THEN "sent" ELSE "failed">>
             /\ result.ext[i] = delivered

\* C30 as stated: in a dispatch an email is sent iff preferences.email,
\* email_verified and an email transport; an SMS is sent iff preferences.sms,
\* phone_verified, a phone number and an SMS transport; each send tried writes
\* exactly one record, sent with an external id or failed.
C30_EligibleChannelsAreSent ==
    hist.dispatch.known =>
        LET p == hist.dispatch.profile
        IN /\ TriedAre(hist.dispatch.result,
                       p.prefs_email /\ p.email_verified /\ p.email_service,
                       p.prefs_sms /\ p.phone_verified /\ p.phone /\ p.sms_service)
           /\ OneRecordPerSend(hist.dispatch.result, hist.dispatch.outcome)

\* C30, amended: the email is sent iff preferences.email, email_verified and an
\* email transport; the SMS is sent iff preferences.sms, phone_verified, a phone
\* number and an SMS transport, and the email send, if there was one, did not
\* fail; each send tried writes exactly one record, sent with an external id or
\* failed.
C30_SendsFollowEligibility ==
    hist.dispatch.known =>
        LET p == hist.dispatch.profile
            email == p.prefs_email /\ p.email_verified /\ p.email_service
            sms == p.prefs_sms /\ p.phone_verified /\ p.phone /\ p.sms_service
        IN /\ TriedAre(hist.dispatch.result,
                       email,
                       sms /\ (email => hist.dispatch.outcome.email_send))
           /\ OneRecordPerSend(hist.dispatch.result, hist.dispatch.outcome)

\* both channels eligible, the email send failed: one failed email record and
\* no SMS
C30_Witness ==
    /\ hist.dispatch.known
    /\ EmailEligible(hist.dispatch.profile)
    /\ SmsEligible(hist.dispatch.profile)
    /\ ~hist.dispatch.outcome.email_send
    /\ hist.dispatch.result.tried = <<"email">>
    /\ hist.dispatch.result.recs = <<<<"email", "failed">>>>

\* the send of the channel was tried in the dispatch and failed
SendFailed(type) ==
    /\ \E i \in 1 .. Len(hist.dispatch.result.tried) : hist.dispatch.result.tried[i] = type
    /\ ~(IF type = "email" THEN hist.dispatch.outcome.email_send
                            ELSE hist.dispatch.outcome.sms_send)

\* C31: a failing transport send makes the dispatch return an error; after a
\* failed email send no SMS is tried; an email sent before a failing SMS keeps
\* its sent record and its delivery.
C31_FailureAbortsDispatch ==
    hist.dispatch.known =>
        LET result == hist.dispatch.result
        IN /\ SendFailed("email") =>
                 /\ ~result.ok
                 /\ result.tried = <<"email">>
                 /\ result.recs = <<<<"email", "failed">>>>
                 /\ result.delivered = 0
           /\ SendFailed("sms") =>
                 /\ ~result.ok
                 /\ result.tried[Len(result.tried)] = "sms"
                 /\ result.recs[Len(result.recs)] = <<"sms", "failed">>
                 /\ Len(result.tried) = 2 =>
                       /\ result.recs = <<<<"email", "sent">>, <<"sms", "failed">>>>
                       /\ result.ext = <<TRUE, FALSE>>
                       /\ result.delivered = 1

\* the email went out and was recorded, the SMS send failed, the dispatch
\* returned the error
C31_Witness ==
    /\ hist.dispatch.known
    /\ SendFailed("sms")
    /\ hist.dispatch.outcome.email_send
    /\ hist.dispatch.result.recs = <<<<"email", "sent">>, <<"sms", "failed">>>>
    /\ hist.dispatch.result.delivered = 1
    /\ ~hist.dispatch.result.ok

\* C32: ensure_valid_session refreshes exactly when the session was never
\* validated, or the last validation is older than validation_interval, or the
\* session is marked invalid, or failure_count >= max_failures; after a
\* successful refresh failure_count is 0 and the session is valid; a call on
\* such a session within validation_interval does not refresh.
C32_RefreshWhenNeeded ==
    hist.ensured.known =>
        LET before == hist.ensured.before
            after == hist.ensured.after
            at == hist.ensured.at
        IN /\ hist.ensured.refreshed <=>
                 \/ before.last_validated = NoTime
                 \/ at - before.last_validated > ValidationInterval
                 \/ ~before.is_valid
                 \/ before.failure_count >= MaxFailures
           /\ (hist.ensured.refreshed /\ hist.ensured.outcome = "success") =>
                 /\ after.failure_count = 0
                 /\ after.is_valid
                 /\ after.last_validated = at
           /\ ~hist.ensured.refreshed => after = before
           /\ (/\ before.last_validated # NoTime
               /\ at - before.last_validated <= ValidationInterval
               /\ before.is_valid
               /\ before.failure_count = 0) => ~hist.ensured.refreshed

\* a call that refreshed a recently validated session because it was marked
\* invalid, and made it valid
C32_Witness ==
    /\ hist.ensured.known
    /\ hist.ensured.refreshed
    /\ hist.ensured.outcome = "success"
    /\ hist.ensured.before.last_validated # NoTime
    /\ hist.ensured.at - hist.ensured.before.last_validated <= ValidationInterval
    /\ ~hist.ensured.before.is_valid
    /\ session.is_valid
    /\ session.failure_count = 0

\* C33: after the upstream request was answered 401 or 403 the session is
\* reset: no upstream request goes out before ensure_valid_session has
\* refreshed the session.
C33_RefreshAfterAuthFailure ==
    [][\A w \in WorkerIds : RequestStep(w) => ~hist'.unauthorised]_vars

\* no task is running and the scheduler is not in the middle of a claim
NothingInFlight ==
    /\ \A w \in WorkerIds : workers[w].pc = "free"
    /\ sched.pc # "mark"
    /\ active_polls = {}

\* C34: the hourly counter goes back to 0 only when the last call is more
\* than one hour old; once the gate has closed, the tasks have finished and an
\* hour has passed without a call, the counter is reset, and a job that is due
\* after a reset is claimed again.
C34_GateReopens ==
    /\ [][(api_call_count # 0 /\ api_call_count' = 0)
              => last_api_call < now - OneHour]_vars
    /\ (/\ api_call_count >= MaxCallsPerHour
        /\ NothingInFlight
        /\ now - last_api_call > OneHour) ~> (api_call_count = 0)
    /\ \A g \in Campgrounds :
          (/\ hist.reopened
           /\ api_call_count = 0
           /\ NothingInFlight
           /\ NeedsPoll(jobs[g])) ~> jobs[g].is_being_polled

\* the gate had closed, the counter was reset, and a job has been claimed
C34_Witness ==
    /\ hist.reopened
    /\ api_call_count = 0
    /\ \E w \in WorkerIds : workers[w].pc = "begin" /\ jobs[Campground(w)].is_being_polled

\* C35: a job that has tripped the error threshold is claimed again once
\* its next_poll_at, pushed out by the error backoff, has elapsed.
C35_TrippedJobResumes ==
    \A g \in Campgrounds :
        (/\ jobs[g].consecutive_errors >= MaxConsecutiveErrors
         /\ jobs[g].active_scan_count > 0
         /\ jobs[g].next_poll_at <= now
         /\ NothingInFlight) ~> jobs[g].is_being_polled

\* C36: a campground is in the in-flight set only while the scheduler is
\* claiming it or a task spawned for it has still to remove it.
C36_EntryHasTask ==
    \A g \in active_polls :
        \/ sched.pc = "mark" /\ sched.cur.campground_id = g
        \/ \E w \in WorkerIds :
              /\ workers[w].pc \in {"begin", "sleep", "await", "notify", "remove"}
              /\ Campground(w) = g

\* C37: a site is reported as newly available only when it was not
\* available in the last snapshot fetched and stored for the campground, also
\* when a failed poll lies between the two.
C37_OnlyRealTransitions ==
    [][\A w \in WorkerIds :
          (workers[w].pc = "await" /\ workers'[w].pc # "await" /\ workers'[w].result = "ok")
              => \A i \in 1 .. Len(workers'[w].new_sites) :
                    <<workers'[w].new_sites[i].site_id, workers'[w].new_sites[i].date>>
                        \notin hist.seen[Campground(w)]]_vars

\* C38: when every send of a scan's dispatch failed, a later poll that finds
\* the site still available, with the scan still not notified, hands the site
\* to the notifier again.
C38_FailedDispatchIsRetried ==
    [][\A w \in WorkerIds :
          (workers[w].pc = "await" /\ workers'[w].pc # "await" /\ workers'[w].result = "ok")
              => \A i \in 1 .. Len(workers[w].scans) :
                    LET scan == workers[w].scans[i]
                    IN (/\ ~scan.notification_sent
                        /\ hist.pending[scan.id] \cap hist'.seen[Campground(w)] # {})
                       => RelevantSites(scan, workers'[w].new_sites) # <<>>]_vars

(***************************************************************************)
(* A user none of whose channels is eligible.                              *)
(***************************************************************************)

\* what get_user_details can return for a user who cannot be reached: both
\* preferences off, neither address verified, or no transport configured
Unreachable ==
    {p \in AllProfiles :
        /\ p.phone
        /\ \/ ~p.prefs_email /\ ~p.prefs_sms /\ p.email_verified /\ p.phone_verified
                /\ p.email_service /\ p.sms_service
           \/ p.prefs_email /\ p.prefs_sms /\ ~p.email_verified /\ ~p.phone_verified
                /\ p.email_service /\ p.sms_service
           \/ p.prefs_email /\ p.prefs_sms /\ p.email_verified /\ p.phone_verified
                /\ ~p.email_service /\ ~p.sms_service}

\* user u1 cannot be reached, user u2 has both channels; the transports and
\* the upstream may fail
InitSilent ==
    InitWith({"g1"},
             [open |-> [g \in Campgrounds |-> UpstreamCells(g)],
              errors |-> {"RateLimited"},
              faults |-> {"upstream", "email_send", "sms_send"},
              profiles |-> [u \in Users |-> IF u = "u2" THEN Profile(TRUE, TRUE)
                                                       ELSE Unreachable],
              rows |-> FreshRows,
              tally |-> FALSE,
              slots |-> 1])

SpecSilent == InitSilent /\ [][Next]_vars

\* C39: a scan is marked notified only after at least one transport send
\* succeeded for it.
C39_NotifiedOnlyAfterDelivery ==
    \A i \in DOMAIN scans : scans[i].notification_sent => hist.delivered[scans[i].id] > 0

(***************************************************************************)
(* The verification store                                                  *)
(***************************************************************************)
MaxCodeTime == 3
MaxCalls == 4
MaxVerificationAttempts == 3

\* expires_in_minutes of the callers, in time units
ExpiryChoices == {1, 2}

Remove(store, key) == [k \in DOMAIN store \ {key} |-> store[k]]

Insert(store, key, value) ==
    [k \in DOMAIN store \cup {key} |-> IF k = key THEN value ELSE store[k]]

\* verify_code that leaves the code in the store when it matches
C40_KeepOnSuccess(store, key, provided_code, t) ==
    IF key \notin DOMAIN store THEN [store |-> store, result |-> "not_found"]
    ELSE IF store[key].expires_at < t
         THEN [store |-> Remove(store, key), result |-> "expired"]
         ELSE LET attempts == store[key].attempts + 1
              IN IF attempts > MaxVerificationAttempts
                 THEN [store |-> Remove(store, key), result |-> "too_many"]
                 ELSE [store |-> [store EXCEPT ![key].attempts = attempts],
                       result |-> IF store[key].code = provided_code THEN "true" ELSE "false"]

\* verify_code at time t: the store it leaves and what it returns
\* ("true" is Ok(true), "false" is Ok(false), the others are the Err values)
VerifyCode(store, key, provided_code, t) ==
    IF key \notin DOMAIN store THEN [store |-> store, result |-> "not_found"]
    ELSE IF store[key].expires_at < t
         THEN [store |-> Remove(store, key), result |-> "expired"]
         ELSE LET attempts == store[key].attempts + 1
              IN IF attempts > MaxVerificationAttempts
                 THEN [store |-> Remove(store, key), result |-> "too_many"]
                 ELSE IF store[key].code = provided_code
                      THEN [store |-> Remove(store, key), result |-> "true"]
                      ELSE [store |-> [store EXCEPT ![key].attempts = attempts],
                            result |-> "false"]

InitCodes ==
    InitWith({"g1"},
             [open |-> [g \in Campgrounds |-> {}],
              errors |-> {},
              faults |-> {},
              profiles |-> [u \in Users |-> Profile(TRUE, FALSE)],
              rows |-> FreshRows,
              tally |-> FALSE,
              slots |-> 1])

\* store_verification_code
StoreVerificationCode ==
    /\ \E key \in Keys, code \in Codes, expires_in \in ExpiryChoices :
          /\ verification_store' =
                 Insert(verification_store, key,
                        [code |-> code, expires_at |-> now + expires_in, attempts |-> 0])
          /\ hist' = [hist EXCEPT !.codes[key] =
                         [issued |-> TRUE, expires_at |-> now + expires_in, calls |-> 0,
                          failed |-> 0, trues |-> 0]]
    /\ UNCHANGED <<now, today, jobs, scans, cache, notifications, active_polls,
                   last_api_call, api_call_count, session, sched, workers, env>>

\* one call of verify_code
VerifyStep ==
    /\ \E key \in Keys, provided_code \in Codes :
          LET v == VerifyCode(verification_store, key, provided_code, now)
          IN /\ hist.codes[key].calls < MaxCalls
             /\ verification_store' = v.store
             /\ hist' = [hist EXCEPT
                            !.codes[key].calls = @ + 1,
                            !.codes[key].failed = @ + (IF v.result = "false" THEN 1 ELSE 0),
                            !.codes[key].trues = @ + (IF v.result = "true" THEN 1 ELSE 0),
                            !.ends =
                                IF v.result \in {"true", "expired", "too_many"}
                                THEN @ \cup {v.result} ELSE @,
                            !.verified = [known |-> TRUE, key |-> key, result |-> v.result]]
    /\ UNCHANGED <<now, today, jobs, scans, cache, notifications, active_polls,
                   last_api_call, api_call_count, session, sched, workers, env>>

\* Utc::now() advances
CodeClock ==
    /\ now < MaxCodeTime
    /\ now' = now + 1
    /\ UNCHANGED <<today, jobs, scans, cache, notifications, active_polls,
                   last_api_call, api_call_count, session, sched, workers,
                   verification_store, env, hist>>

NextCodes == StoreVerificationCode \/ VerifyStep \/ CodeClock

SpecCodes == InitCodes /\ [][NextCodes]_vars

\* C40: for a stored code, verify_code returns Ok(true) at most once, never
\* after the expiry time and never after three failed attempts; a call after
\* the expiry time and the fourth call both remove the code.
C40_VerifyCodeOnce ==
    [][\A k \in Keys :
          LET life == hist.codes[k]
          IN (life.issued /\ hist'.codes[k].calls = life.calls + 1)
             => /\ hist'.verified.result = "true"
                    => /\ life.trues = 0
                       /\ now <= life.expires_at
                       /\ life.failed < MaxVerificationAttempts
                /\ (k \in DOMAIN verification_store /\ now > life.expires_at)
                    => /\ k \notin DOMAIN verification_store'
                       /\ hist'.verified.result = "expired"
                /\ (k \in DOMAIN verification_store /\ life.calls = MaxVerificationAttempts)
                    => k \notin DOMAIN verification_store']_vars

\* stored codes have ended in each of the three ways, the code of k1 was
\* accepted after a failed attempt and is gone, and a code of k2 is still in
\* the store after a failed attempt
C40_Witness ==
    /\ hist.ends = {"true", "expired", "too_many"}
    /\ hist.codes["k1"].trues = 1
    /\ hist.codes["k1"].failed > 0
    /\ "k1" \notin DOMAIN verification_store
    /\ "k2" \in DOMAIN verification_store
    /\ hist.codes["k2"].failed > 0

====
